---- MODULE Spec2Model ----
(***************************************************************************)
(* Model of the XOR tutorial notebook: XORDataset, the DataLoader built    *)
(* over it, train_model and eval_model.                                    *)
(*                                                                         *)
(* Real numbers are kept in fixed point.  A feature is counted in halves   *)
(* (Unit = 2, so the clean bits 0.0 / 1.0 are 0 / 2 and 0.5 is 1); a       *)
(* standard deviation is counted in halves too and a draw of torch.randn   *)
(* is an integer multiple of one standard deviation.  Parameters, logits,   *)
(* probabilities, losses and gradients are counted in units of 1/10000     *)
(* (Scale).                                                                *)
(* Python sequences are 0-based: row idx of a tensor is element idx + 1 of *)
(* the TLA+ sequence that models it.                                       *)
(* A definition named X_y is a faulty variant of X, kept to show that a    *)
(* property depends on X.                                                  *)
(***************************************************************************)
EXTENDS Integers, Sequences, FiniteSets, TLC

VARIABLES
    dsState,     \* "none" | "built" | "error": outcome of XORDataset(size, std)
    size,        \* self.size  (the requested size)
    std,         \* self.std
    bits,        \* the clean draws of torch.randint, one pair per row (history)
    noise,       \* the draws of torch.randn, one pair per row (history)
    data,        \* self.data : sequence of feature pairs
    label,       \* self.label: sequence of 0/1
    item,        \* result of the last dataset[idx], dropped by the next loader cell
    loader,      \* the DataLoader: batch_size, shuffle, drop_last
    it,          \* the iterator of the running (or last finished) traversal
    batch,       \* data_inputs, data_labels: the batch last yielded
    pc,          \* the statement the notebook is at
    trainer,     \* train_model: "Idle" | "Running" | "Done" | "Failed"
    epoch,       \* train_model: epoch
    num_epochs,  \* train_model: num_epochs
    ops,         \* the operations done so far in the current training step (history)
    mode,        \* model.training: "train" | "eval"
    params,      \* the model's parameters
    grads,       \* the .grad of each parameter
    preds,       \* train_model: preds (the logits of the current batch)
    loss,        \* train_model: loss
    evalres,     \* eval_model: true_preds, num_preds and the accuracy
    tlog,        \* what the running (or last) call of train_model did (history)
    passes,      \* the backward passes since the last optimizer.zero_grad() (history)
                 \* and the batch whose loss still holds its graph
    ckpt,        \* the variable state_dict and the file our_model.tar
    new_model,   \* the parameters of new_model
    sig,         \* one logit and its binarised prediction
    feed,        \* what the data_loader given to train_model yields
    trav,        \* the batches of the first finished traversal and of the
                 \* running one (history)
    files,       \* what is at each pretrained file's path under CHECKPOINT_PATH
    cell         \* the download cell: its loop position and what it did

dsVars == <<dsState, size, std, bits, noise, data, label>>

loopVars == <<loader, it, batch, pc, trainer, epoch, num_epochs, ops, mode,
              params, grads, preds, loss, evalres>>

\* the variables only some of the cells write
auxVars == <<tlog, passes, ckpt, new_model, sig, feed, trav, files, cell>>

\* the same without the history of train_model
exceptTlog == <<passes, ckpt, new_model, sig, feed, trav, files, cell>>

\* the same without the backward passes either
exceptTlogPasses == <<ckpt, new_model, sig, feed, trav, files, cell>>

\* the same without the history of the backward passes
exceptPasses == <<tlog, ckpt, new_model, sig, feed, trav, files, cell>>

\* the same without the history of the traversals
exceptTrav == <<tlog, passes, ckpt, new_model, sig, feed, files, cell>>

\* the same without both histories
exceptTlogTrav == <<passes, ckpt, new_model, sig, feed, files, cell>>

\* what the download cell of the optimization notebook leaves alone
exceptCell == <<tlog, passes, ckpt, new_model, sig, feed, trav>>

vars == <<dsState, size, std, bits, noise, data, label, item, loader, it, batch,
          pc, trainer, epoch, num_epochs, ops, mode, params, grads, preds,
          loss, evalres, tlog, passes, ckpt, new_model, sig, feed, trav, files, cell>>

\* ------------------------------------------------------------------ bounds
MaxSize == 2         \* largest size of a dataset with freely drawn content
MaxRegenSize == 1    \* largest size of a dataset that is generated again
MaxLoaderSize == 10  \* largest size of a dataset a loader is built over
MaxShuffleSize == 2  \* largest size of a dataset that is traversed shuffled
MaxBatch == 4        \* largest batch_size
MaxEpochs == 2       \* largest num_epochs
MaxRetrain == 1      \* most further calls of train_model after the first
MaxLogit == 16       \* largest logit probed, in halves and in units of 1/Scale
MaxFaultAt == 3      \* latest batch of a run that is malformed
MaxPasses == 2       \* most backward passes without a zero_grad between them

\* ------------------------------------------------------------- value sets
Unit == 2            \* fixed point: 1.0 is Unit halves
Bit == {0, 1}        \* torch.randint(low=0, high=2)
NoiseDraws == {-1, 0, 1}     \* torch.randn, in standard deviations
StdValues == {-1, 0, 2}         \* the std argument, in halves
SizeValues == (-1) .. MaxSize

NoItem == [kind |-> "none"]
IndexError == [kind |-> "IndexError"]
NoLoader == [kind |-> "none"]
NoIter == [kind |-> "none"]
NoBatch == [kind |-> "none"]
NoPasses == [since |-> <<>>, before |-> 0, graph |-> NoBatch]

NoDict == [kind |-> "none"]

NoFile == [kind |-> "absent"]

NoCkpt == [state_dict |-> NoDict, file |-> NoFile]

NoModel == [kind |-> "none"]

NoSig == [kind |-> "none"]

\* a data_loader whose every batch is well formed
CleanFeed == [fault |-> "none", at |-> 0]

NoEval == [kind |-> "none"]

\* the download cell has not run and CHECKPOINT_PATH is not looked at
NoFiles == <<>>

NoCell == [pc |-> "none", run |-> 0, i |-> 0, seen |-> <<>>, tried |-> <<>>,
           reported |-> <<>>, exc |-> "none", prev |-> "none", start |-> <<>>]

\* ------------------------------------------------------------- XORDataset
\* label = (data.sum(dim=1) == 1).to(torch.long), for one row of clean bits
XorLabel_or(pair) == IF pair[1] + pair[2] >= 1 THEN 1 ELSE 0

XorLabel(pair) == IF pair[1] + pair[2] = 1 THEN 1 ELSE 0

\* data += self.std * torch.randn(data.shape), for one row
AddNoise(pair, s, z) == <<Unit * pair[1] + s * z[1], Unit * pair[2] + s * z[2]>>

\* torch.randint(size=(self.size, 2)) raises for a negative dimension; nothing
\* else in __init__ / generate_continuous_xor rejects an argument.
ConstructFails_nonpositive(sz, s) == sz <= 0

ConstructFails_negstd(sz, s) == sz < 0 \/ s < 0

ConstructFails(sz, s) == sz < 0

\* XORDataset.__len__
len(sz, d) == sz

\* XORDataset.__getitem__: tensor indexing, negative idx counts from the end
getitem_nonneg(d, l, idx) ==
    IF idx >= 0 /\ idx < Len(d)
    THEN [kind |-> "item", point |-> d[idx + 1], lab |-> l[idx + 1]]
    ELSE IndexError

getitem(d, l, idx) ==
    IF idx >= 0 /\ idx < Len(d)
    THEN [kind |-> "item", point |-> d[idx + 1], lab |-> l[idx + 1]]
    ELSE IF idx < 0 /\ idx >= -Len(d)
    THEN [kind |-> "item", point |-> d[Len(d) + idx + 1], lab |-> l[Len(l) + idx + 1]]
    ELSE IndexError

\* the two tensors generate_continuous_xor stores, from the random draws
LabelsOf(sz, bs) == [i \in 1 .. sz |-> XorLabel(bs[i])]

DataOf(sz, s, bs, zs) == [i \in 1 .. sz |-> AddNoise(bs[i], s, zs[i])]

Noised_relabel(sz, s, bs, zs) ==
    [data |-> DataOf(sz, s, bs, zs),
     label |-> [i \in 1 .. sz |->
                  IF DataOf(sz, s, bs, zs)[i][1] + DataOf(sz, s, bs, zs)[i][2] = Unit
                  THEN 1 ELSE 0]]

\* the tensors after data += self.std * torch.randn(data.shape): data is
\* changed in place, label is the tensor computed before from the clean bits
Noised(sz, s, bs, zs) ==
    [data |-> DataOf(sz, s, bs, zs), label |-> LabelsOf(sz, bs)]

\* XORDataset.__init__ + generate_continuous_xor with the given random draws
Generate(sz, s, bs, zs) ==
    /\ size' = sz
    /\ std' = s
    /\ IF ConstructFails(sz, s)
       THEN /\ dsState' = "error"
            /\ bits' = <<>> /\ noise' = <<>> /\ data' = <<>> /\ label' = <<>>
       ELSE /\ dsState' = "built"
            /\ bits' = bs
            /\ noise' = zs
            /\ label' = Noised(sz, s, bs, zs).label
            /\ data' = Noised(sz, s, bs, zs).data

Rows(sz, S) == IF sz <= 0 THEN {<<>>} ELSE [1 .. sz -> S]

Construct ==
    /\ dsState = "none"
    /\ \E sz \in SizeValues, s \in StdValues :
         \E bs \in Rows(sz, Bit \X Bit), zs \in Rows(sz, NoiseDraws \X NoiseDraws) :
            Generate(sz, s, bs, zs)
    /\ item' = NoItem
    /\ UNCHANGED loopVars
    /\ UNCHANGED auxVars

\* the draws of torch.randn for one row when the dataset is generated
\* again: none, and one that moves both features
RegenNoise == {<<0, 0>>, <<-1, 1>>}

\* dataset.generate_continuous_xor() called again on a built dataset: size
\* and std stay, data and label are new tensors from new draws.  An item
\* read before the call keeps the row of the old tensors.
Regenerate ==
    /\ dsState = "built"
    /\ pc = "idle"
    /\ size <= MaxRegenSize
    /\ \E bs \in Rows(size, Bit \X Bit), zs \in Rows(size, RegenNoise) :
          /\ bits' = bs
          /\ noise' = zs
          /\ label' = Noised(size, std, bs, zs).label
          /\ data' = Noised(size, std, bs, zs).data
    /\ UNCHANGED <<dsState, size, std, item>>
    /\ UNCHANGED loopVars
    /\ UNCHANGED auxVars

ProbeIdx == (-(size + 1)) .. (size + 1)

\* dataset[idx] at every index around the bounds, where the notebook reads
\* an item: on the dataset just built, before a loader is made over it
GetItem ==
    /\ dsState = "built"
    /\ pc = "idle"
    /\ loader = NoLoader
    /\ \E idx \in ProbeIdx :
          item' = [kind |-> "got", idx |-> idx, res |-> getitem(data, label, idx)]
    /\ UNCHANGED dsVars
    /\ UNCHANGED loopVars
    /\ UNCHANGED auxVars

\* ------------------------------------------------------------- DataLoader
\* SequentialSampler (shuffle=False): range(len(dataset))
Sequential_rev(n) == [i \in 1 .. n |-> n - i]

Sequential(n) == [i \in 1 .. n |-> i - 1]

\* RandomSampler (shuffle=True): torch.randperm(len(dataset)), any permutation
randperm_repl(n) == [1 .. n -> 0 .. (n - 1)]

randperm(n) ==
    {p \in [1 .. n -> 0 .. (n - 1)] : \A i, j \in 1 .. n : p[i] = p[j] => i = j}

SamplerOrders_either(ld, n) ==
    IF ld.shuffle THEN randperm(n) ELSE {Sequential(n), Sequential_rev(n)}

\* the index orders iter(data_loader) may draw from the loader's sampler
SamplerOrders(ld, n) == IF ld.shuffle THEN randperm(n) ELSE {Sequential(n)}

\* iter(data_loader): a fresh traversal over the order the sampler gave
NewIter(order) ==
    [kind |-> "iter", order |-> order, pos |-> 0, out |-> <<>>, done |-> FALSE]

\* BatchSampler.__iter__: the next batch_size indices of the order; a short
\* rest is yielded unless drop_last; <<>> stands for StopIteration
NextChunk_keep(itr, ld) ==
    LET rem == Len(itr.order) - itr.pos
    IN  IF rem >= ld.batch_size
        THEN SubSeq(itr.order, itr.pos + 1, itr.pos + ld.batch_size)
        ELSE SubSeq(itr.order, itr.pos + 1, Len(itr.order))

NextChunk(itr, ld) ==
    LET rem == Len(itr.order) - itr.pos
    IN  IF rem >= ld.batch_size
        THEN SubSeq(itr.order, itr.pos + 1, itr.pos + ld.batch_size)
        ELSE IF rem > 0 /\ ~ld.drop_last
        THEN SubSeq(itr.order, itr.pos + 1, Len(itr.order))
        ELSE <<>>

\* the iterator after next(): the chunk is recorded in out (history), and at
\* StopIteration the sampler has been consumed to its end
Advance(itr, chunk) ==
    IF chunk = <<>>
    THEN [itr EXCEPT !.pos = Len(itr.order), !.done = TRUE]
    ELSE [itr EXCEPT !.pos = @ + Len(chunk), !.out = Append(@, chunk)]

\* default collate over [dataset[i] for i in chunk]: the points stacked into
\* data_inputs, the labels into data_labels (idx: the chunk, kept as history)
Collate_misaligned(d, l, chunk) ==
    [kind |-> "batch",
     inputs |-> [k \in 1 .. Len(chunk) |-> getitem(d, l, chunk[k]).point],
     labels |-> [k \in 1 .. Len(chunk) |->
                    getitem(d, l, chunk[Len(chunk) + 1 - k]).lab],
     idx |-> chunk]

Collate(d, l, chunk) ==
    [kind |-> "batch",
     inputs |-> [k \in 1 .. Len(chunk) |-> getitem(d, l, chunk[k]).point],
     labels |-> [k \in 1 .. Len(chunk) |-> getitem(d, l, chunk[k]).lab],
     idx |-> chunk]

\* one fetch of the loader: dataset[i] for each i of the chunk, then collate.
\* The rows are read and stacked into new tensors, so the dataset's own
\* tensors are what they were.
Fetched_inplace(d, l, chunk) ==
    [batch |-> Collate(d, l, chunk),
     data |-> [i \in 1 .. Len(d) |->
                 IF \E k \in 1 .. Len(chunk) : chunk[k] + 1 = i THEN <<0, 0>> ELSE d[i]],
     label |-> l]

Fetched(d, l, chunk) ==
    [batch |-> Collate(d, l, chunk), data |-> d, label |-> l]

dsFrame == <<dsState, size, std, bits, noise>>

\* no traversal yet
NoTrav == [has |-> FALSE, first |-> <<>>, cur |-> <<>>]

\* the history when a traversal of the loader ld starts, yields the batch
\* b, ends; it is kept for a loader with shuffle off
Started(ld, tr) == IF ld.shuffle THEN tr ELSE [tr EXCEPT !.cur = <<>>]

Yielded(ld, tr, b) == IF ld.shuffle THEN tr ELSE [tr EXCEPT !.cur = Append(@, b)]

Ended(ld, tr) ==
    IF ld.shuffle \/ tr.has THEN tr ELSE [tr EXCEPT !.has = TRUE, !.first = tr.cur]

\* data.DataLoader(dataset, batch_size=b, shuffle=sh, drop_last=dl).  Over an
\* empty dataset with shuffle=True the RandomSampler of some torch releases
\* raises ValueError and that of others is built: both outcomes are kept.
MakeLoader ==
    /\ dsState = "built"
    /\ pc = "idle"
    /\ loader = NoLoader
    /\ \E b \in 1 .. MaxBatch, sh \in BOOLEAN, dl \in BOOLEAN :
          /\ sh => size <= MaxShuffleSize
          /\ \/ loader' = [kind |-> "loader", batch_size |-> b, shuffle |-> sh,
                           drop_last |-> dl]
             \/ /\ sh /\ len(size, data) = 0
                /\ loader' = [kind |-> "ValueError"]
    /\ item' = NoItem
    /\ UNCHANGED dsVars
    /\ UNCHANGED <<it, batch, pc, trainer, epoch, num_epochs, ops, mode,
                   params, grads, preds, loss, evalres>>
    /\ UNCHANGED auxVars

\* data_inputs, data_labels = next(iter(data_loader))
CellFirstBatch ==
    /\ pc = "idle"
    /\ loader.kind = "loader"
    /\ \E order \in SamplerOrders(loader, len(size, data)) :
          LET chunk == NextChunk(NewIter(order), loader)
              f == Fetched(data, label, chunk)
          IN  /\ it' = Advance(NewIter(order), chunk)
              /\ batch' = IF chunk = <<>> THEN NoBatch ELSE f.batch
              /\ data' = f.data
              /\ label' = f.label
              /\ trav' = IF chunk = <<>> THEN Ended(loader, Started(loader, trav))
                         ELSE Yielded(loader, Started(loader, trav), f.batch)
    /\ item' = NoItem
    /\ UNCHANGED dsFrame
    /\ UNCHANGED <<loader, pc, trainer, epoch, num_epochs, ops, mode,
                   params, grads, preds, loss, evalres>>
    /\ UNCHANGED exceptTrav

\* for batch in data_loader: ...   (entering the loop)
CellLoopStart ==
    /\ pc = "idle"
    /\ loader.kind = "loader"
    /\ \E order \in SamplerOrders(loader, len(size, data)) : it' = NewIter(order)
    /\ batch' = NoBatch
    /\ pc' = "cell_loop"
    /\ item' = NoItem
    /\ trav' = Started(loader, trav)
    /\ UNCHANGED dsVars
    /\ UNCHANGED <<loader, trainer, epoch, num_epochs, ops, mode,
                   params, grads, preds, loss, evalres>>
    /\ UNCHANGED exceptTrav

\* for batch in data_loader: ...   (one iteration, or the end of the loop)
CellLoopNext ==
    /\ pc = "cell_loop"
    /\ LET chunk == NextChunk(it, loader)
           f == Fetched(data, label, chunk)
       IN  /\ it' = Advance(it, chunk)
           /\ data' = f.data
           /\ label' = f.label
           /\ IF chunk = <<>>
              THEN pc' = "idle" /\ batch' = batch /\ trav' = Ended(loader, trav)
              ELSE pc' = "cell_loop" /\ batch' = f.batch /\ trav' = Yielded(loader, trav, f.batch)
    /\ UNCHANGED dsFrame
    /\ UNCHANGED <<item, loader, trainer, epoch, num_epochs, ops, mode,
                   params, grads, preds, loss, evalres>>
    /\ UNCHANGED exceptTrav

\* ------------------------------------------------------- SimpleClassifier
\* Parameters, activations, logits, probabilities, losses and gradients are
\* fixed-point numbers in units of 1/Scale; the features stay in halves.
\* Every operation gives the value the code computes, rounded to the
\* nearest unit; exp, tanh, sigmoid and log are computed to within one unit.
Scale == 10000       \* 1.0 is Scale units
Fine == 10 * Scale   \* the finer unit exp and log are computed in
NumHidden == 4       \* SimpleClassifier(num_inputs=2, num_hidden=4, num_outputs=1)
Hidden == 1 .. NumHidden
Lr == 1000           \* SGD(lr=0.1), in units of 1/Scale

RECURSIVE SumFrom(_, _)
SumFrom(f, n) == IF n = 0 THEN 0 ELSE f[n] + SumFrom(f, n - 1)

\* the one element of a set of one element.  A bound variable holds a
\* value, so { e(x) : x \in {a} } computes a once however often e uses x.
Val(S) == CHOOSE v \in S : TRUE

\* the sum of the first n entries of f
SumTo(f, n) == Val({SumFrom(g, n) : g \in {f}})

\* a / b rounded to the nearest integer, halves upwards (b > 0)
RDiv(a, b) == (a + b \div 2) \div b

\* a * b and a / b of two numbers a, b >= 0 in units of 1/Fine, in units of
\* 1/Fine (in two parts, so that no intermediate value leaves 32 bits)
MulF(a, b) ==
    Val({RDiv(x * (y \div 100) + RDiv(x * (y % 100), 100), Fine \div 100) :
           x \in {a}, y \in {b}})

DivF(a, b) ==
    Val({((x * 1000) \div y) * 100 + RDiv(((x * 1000) % y) * 100, y) :
           x \in {a}, y \in {b}})

\* exp(-k/4) for k = 0, 1, ..., in units of 1/Fine
ExpTable ==
    <<100000, 77880, 60653, 47237, 36788, 28650, 22313, 17377, 13534, 10540,
      8208, 6393, 4979, 3877, 3020, 2352, 1832, 1426, 1111, 865, 674, 525,
      409, 318, 248, 193, 150, 117, 91, 71, 55, 43, 34, 26, 20, 16, 12, 10,
      7, 6, 5, 4, 3, 2, 2, 1, 1, 1>>

\* exp(-r) by its series, for 0 <= r < 1/4 in units of 1/Fine
ExpSeries(r) ==
    Fine - r + RDiv(r * r, 2 * Fine)
       - RDiv(RDiv(r * r, 2 * Fine) * r, 3 * Fine)
       + RDiv(RDiv(RDiv(r * r, 2 * Fine) * r, 3 * Fine) * r, 4 * Fine)

\* exp(-t) for t >= 0 in units of 1/Scale, in units of 1/Fine: the table
\* entry for the quarters of t times the series for the rest
ExpNeg(t) ==
    Val({IF x >= Len(ExpTable) * (Scale \div 4) THEN 0
         ELSE MulF(ExpTable[x \div (Scale \div 4) + 1],
                   Val({ExpSeries(r) : r \in {10 * (x % (Scale \div 4))}})) :
           x \in {t}})

\* log(1 + u) for 0 <= u <= 1 in units of 1/Fine, in units of 1/Scale:
\* 2 atanh(w) = 2 w (1 + q/3 + q^2/5 + q^3/7 + q^4/9), w = u / (2 + u), q = w^2
AtanhSeries(w, q) ==
    2 * w + RDiv(2 * MulF(w, q), 3) + RDiv(2 * MulF(w, MulF(q, q)), 5)
       + RDiv(2 * MulF(w, MulF(q, MulF(q, q))), 7)
       + RDiv(2 * MulF(w, MulF(MulF(q, q), MulF(q, q))), 9)

Log1p(u) ==
    Val({Val({RDiv(AtanhSeries(w, q), 10) : q \in {MulF(w, w)}}) :
           w \in {DivF(u, 2 * Fine + u)}})

\* nn.Linear's random initial values: uniform in (-1/sqrt(in_features),
\* 1/sqrt(in_features)), that is within 0.7071 for linear1 and within 0.5
\* for linear2, weights and biases alike.  One draw:
InitParams ==
    [l1w |-> <<<<-6021, 4137>>, <<5208, 6544>>, <<-3312, -5760>>, <<6903, -2485>>>>,
     l1b |-> <<1274, -2931, 4466, -618>>,
     l2w |-> <<-4512, 3307, -2196, 4840>>,
     l2b |-> 1538]

\* every .grad cleared (None and a zero tensor are not told apart)
ZeroGrads ==
    [l1w |-> [j \in Hidden |-> <<0, 0>>],
     l1b |-> [j \in Hidden |-> 0],
     l2w |-> [j \in Hidden |-> 0],
     l2b |-> 0]

\* |z|
Abs(z) == IF z >= 0 THEN z ELSE -z

\* nn.Tanh: (1 - exp(-2|z|)) / (1 + exp(-2|z|)) with the sign of z
Tanh(z) ==
    Val({Val({IF x >= 0 THEN RDiv((Fine - e) * Scale, Fine + e)
              ELSE -RDiv((Fine - e) * Scale, Fine + e) :
                e \in {ExpNeg(2 * Abs(x))}}) :
           x \in {z}})

\* its derivative as autograd computes it: 1 - tanh(z)^2
TanhD(z) == Val({Scale - RDiv(h * h, Scale) : h \in {Tanh(z)}})

\* self.linear1(x), one hidden unit of one row
Pre(p, j, x) == RDiv(p.l1w[j][1] * x[1] + p.l1w[j][2] * x[2], Unit) + p.l1b[j]

\* SimpleClassifier.forward for one row: linear1, act_fn, linear2
Logit(p, x) ==
    RDiv(SumTo([j \in Hidden |-> p.l2w[j] * Tanh(Pre(p, j, x))], NumHidden), Scale)
       + p.l2b

\* preds = model(data_inputs).squeeze(dim=1)
Forward(p, xs) == [k \in 1 .. Len(xs) |-> Logit(p, xs[k])]

\* A logit is z units of 1/Scale plus t times 2^-25; t is not 0 only beside
\* z = 0.  A probability is a number of units of 1/Scale and, when that
\* number is 0.5, the offset of the float32 result from 0.5 in units of
\* 2^-27.
ProbUnit == Scale
TinyLogits == {-1, 0, 1}
SpacingBelow == 4    \* float32 numbers just below 0.5 are 2^-25 apart
SpacingAbove == 8    \* float32 numbers just above 0.5 are 2^-24 apart
HalfSlope == 3355    \* sigmoid(1/Scale) - 0.5 = 1/(4 Scale), in units of 2^-27

\* the multiple of s nearest to a >= 0, a tie going to the even multiple
NearestEven(a, s) ==
    IF 2 * (a % s) < s THEN s * (a \div s)
    ELSE IF 2 * (a % s) > s THEN s * (a \div s + 1)
    ELSE IF (a \div s) % 2 = 0 THEN s * (a \div s)
    ELSE s * (a \div s + 1)

Round32_exact(off) == off

\* the float32 number nearest to 0.5 + off * 2^-27, as its offset from 0.5
\* (ties go to the even mantissa)
Round32(off) ==
    IF off >= 0 THEN NearestEven(off, SpacingAbove)
    ELSE -NearestEven(-off, SpacingBelow)

\* torch.sigmoid: 1 / (1 + exp(-z)), as exp(-|z|) keeps it in range
SigmoidGrid(z) ==
    Val({Val({IF x >= 0 THEN RDiv(Scale * Fine, Fine + e)
              ELSE RDiv(e * Scale, Fine + e) :
                e \in {ExpNeg(Abs(x))}}) :
           x \in {z}})

\* torch.sigmoid in float32
Sigmoid(z, t) ==
    Val({[grid |-> g,
          off |-> IF 2 * g = ProbUnit THEN Round32(HalfSlope * z + t) ELSE 0] :
           g \in {SigmoidGrid(z)}})

\* preds >= 0.5
AtLeastHalf(pr) ==
    \/ 2 * pr.grid > ProbUnit
    \/ 2 * pr.grid = ProbUnit /\ pr.off >= 0

\* (torch.sigmoid(preds) >= 0.5).long(), for one logit
Binarize(z, t) == IF AtLeastHalf(Sigmoid(z, t)) THEN 1 ELSE 0

\* the same for a logit of whole units
PredLabel(z) == Binarize(z, 0)

\* nn.BCEWithLogitsLoss for one row: max(z, 0) - z * y + log(1 + exp(-|z|))
LossTerm(z, y) ==
    Val({(IF x > 0 THEN x ELSE 0) - x * y + Log1p(ExpNeg(Abs(x))) : x \in {z}})

\* loss_module(preds, data_labels.float()): the mean over the rows
BCEWithLogits(zs, ys) ==
    Val({RDiv(SumTo([k \in 1 .. Len(v) |-> LossTerm(v[k], ys[k])], Len(v)), Len(v)) :
           v \in {zs}})

\* the gradient of one row's loss with respect to its logit, times the
\* number of rows: sigmoid(z) - y
RowDelta(z, y) == SigmoidGrid(z) - Scale * y

\* the same carried back through linear2 and tanh to the hidden unit whose
\* weight in linear2 is w and whose activation is h
RowBack(d, w, h) == RDiv(RDiv(d * w, Scale) * (Scale - RDiv(h * h, Scale)), Scale)

\* the gradient from the rows' deltas d and activations act
GradOf(p, b, n, d, act) ==
    [l1w |-> [j \in Hidden |->
                <<RDiv(SumTo([k \in 1 .. n |->
                                RowBack(d[k], p.l2w[j], act[k][j]) * b.inputs[k][1]], n),
                       Unit * n),
                  RDiv(SumTo([k \in 1 .. n |->
                                RowBack(d[k], p.l2w[j], act[k][j]) * b.inputs[k][2]], n),
                       Unit * n)>>],
     l1b |-> [j \in Hidden |->
                RDiv(SumTo([k \in 1 .. n |-> RowBack(d[k], p.l2w[j], act[k][j])], n), n)],
     l2w |-> [j \in Hidden |->
                RDiv(SumTo([k \in 1 .. n |-> d[k] * act[k][j]], n), Scale * n)],
     l2b |-> RDiv(SumTo(d, n), n)]

\* loss.backward(): the gradient of the mean loss of this batch at the
\* parameters p, by the chain rule through linear2, tanh and linear1
BatchGrad(p, b, zs) ==
    Val({GradOf(p, b, Len(d), d, act) :
           d \in {[k \in 1 .. Len(b.inputs) |-> RowDelta(zs[k], b.labels[k])]},
           act \in {[k \in 1 .. Len(b.inputs) |->
                       [j \in Hidden |-> Tanh(Pre(p, j, b.inputs[k]))]]}})

Accumulate_overwrite(g, h) == h

\* backward adds into the existing .grad of every parameter
Accumulate(g, h) ==
    [l1w |-> [j \in Hidden |-> <<g.l1w[j][1] + h.l1w[j][1], g.l1w[j][2] + h.l1w[j][2]>>],
     l1b |-> [j \in Hidden |-> g.l1b[j] + h.l1b[j]],
     l2w |-> [j \in Hidden |-> g.l2w[j] + h.l2w[j]],
     l2b |-> g.l2b + h.l2b]

SGDStep_decay(p, g) ==
    [l1w |-> [j \in Hidden |->
                <<p.l1w[j][1] - RDiv(Lr * (g.l1w[j][1] + p.l1w[j][1]), Scale),
                  p.l1w[j][2] - RDiv(Lr * (g.l1w[j][2] + p.l1w[j][2]), Scale)>>],
     l1b |-> [j \in Hidden |-> p.l1b[j] - RDiv(Lr * g.l1b[j], Scale)],
     l2w |-> [j \in Hidden |-> p.l2w[j] - RDiv(Lr * g.l2w[j], Scale)],
     l2b |-> p.l2b - RDiv(Lr * g.l2b, Scale)]

\* optimizer.step() of torch.optim.SGD: p -= lr * p.grad
SGDStep(p, g) ==
    [l1w |-> [j \in Hidden |-> <<p.l1w[j][1] - RDiv(Lr * g.l1w[j][1], Scale),
                                 p.l1w[j][2] - RDiv(Lr * g.l1w[j][2], Scale)>>],
     l1b |-> [j \in Hidden |-> p.l1b[j] - RDiv(Lr * g.l1b[j], Scale)],
     l2w |-> [j \in Hidden |-> p.l2w[j] - RDiv(Lr * g.l2w[j], Scale)],
     l2b |-> p.l2b - RDiv(Lr * g.l2b, Scale)]

\* ------------------------------------------------------------ train_model
\* the statements of the loop body after the batch is obtained, in order
TrainBody_no_zero_grad == <<"forward", "loss", "backward", "step">>

TrainBody_no_step == <<"forward", "loss", "zero_grad", "backward">>

TrainBody_backward_first == <<"forward", "loss", "backward", "zero_grad", "step">>

TrainBody == <<"forward", "loss", "zero_grad", "backward", "step">>

\* the statement that follows stmt; after the last one the loop fetches again
After(stmt) ==
    LET i == CHOOSE k \in 1 .. Len(TrainBody) : TrainBody[k] = stmt
    IN  IF i = Len(TrainBody) THEN "fetch" ELSE TrainBody[i + 1]

\* what a data_loader that yields its at-th batch malformed makes of that
\* batch: a feature too many or too few, a label too few or too many
Faults == {"wide", "narrow", "labels_short", "labels_long"}

Corrupt(b, fd, k) ==
    IF fd.fault = "none" \/ k # fd.at THEN b
    ELSE CASE fd.fault = "wide" ->
                [b EXCEPT !.inputs = [r \in 1 .. Len(b.inputs) |-> Append(b.inputs[r], 0)]]
           [] fd.fault = "narrow" ->
                [b EXCEPT !.inputs = [r \in 1 .. Len(b.inputs) |-> <<b.inputs[r][1]>>]]
           [] fd.fault = "labels_short" ->
                [b EXCEPT !.labels = SubSeq(b.labels, 1, Len(b.labels) - 1)]
           [] fd.fault = "labels_long" ->
                [b EXCEPT !.labels = Append(b.labels, 0)]

ForwardFails_lenient(b) == \E r \in 1 .. Len(b.inputs) : Len(b.inputs[r]) < 2

\* self.linear1(x) with in_features = 2: rows of another width cannot be
\* multiplied (RuntimeError)
ForwardFails(b) == \E r \in 1 .. Len(b.inputs) : Len(b.inputs[r]) # 2

\* nn.BCEWithLogitsLoss: the target size must be the input size (ValueError)
LossFails(zs, ys) == Len(zs) # Len(ys)

\* the history of a call of train_model before its first statement
\* (fetched: batches obtained; cur: their index lists in the running
\* epoch; per: the number of batches of each finished epoch; again: the
\* number of calls that returned before this one)
NoLog == [loader |-> NoLoader, start |-> InitParams, after |-> InitParams,
          traversals |-> 0, steps |-> 0, fetched |-> 0, cur |-> <<>>,
          per |-> <<>>, error |-> "none", again |-> 0]

\* train_model(model, optimizer, data_loader, loss_module, num_epochs): model.train()
TrainStart ==
    /\ pc = "idle"
    /\ loader.kind = "loader"
    /\ trainer = "Idle"
    /\ \E ne \in 0 .. MaxEpochs : num_epochs' = ne
    /\ trainer' = "Running"
    /\ mode' = "train"
    /\ epoch' = 0
    /\ pc' = "epoch"
    /\ it' = NoIter /\ batch' = NoBatch /\ ops' = <<>>
    /\ preds' = <<>> /\ loss' = 0
    /\ item' = NoItem
    /\ UNCHANGED dsVars
    /\ tlog' = [NoLog EXCEPT !.loader = loader, !.start = params, !.after = params]
    /\ UNCHANGED <<loader, params, grads, evalres>>
    /\ UNCHANGED exceptTlog

\* train_model(...) called once more on the same model and optimizer after
\* an earlier call has returned: the parameters and the stored gradients
\* are the ones that call (and whatever ran since) left
TrainAgain ==
    /\ pc = "idle"
    /\ loader.kind = "loader"
    /\ trainer = "Done"
    /\ tlog.again < MaxRetrain
    /\ \E ne \in 0 .. MaxEpochs : num_epochs' = ne
    /\ trainer' = "Running"
    /\ mode' = "train"
    /\ epoch' = 0
    /\ pc' = "epoch"
    /\ it' = NoIter /\ batch' = NoBatch /\ ops' = <<>>
    /\ preds' = <<>> /\ loss' = 0
    /\ item' = NoItem
    /\ UNCHANGED dsVars
    /\ tlog' = [NoLog EXCEPT !.loader = loader, !.start = params, !.after = params,
                             !.again = tlog.again + 1]
    /\ UNCHANGED <<loader, params, grads, evalres>>
    /\ UNCHANGED exceptTlog

InRange_inclusive(e, n) == e <= n

\* range(num_epochs): epoch e is run when e is below num_epochs
InRange(e, n) == e < n

\* for epoch in range(num_epochs): the inner for loop calls iter(data_loader)
TrainEpoch ==
    /\ pc = "epoch"
    /\ IF InRange(epoch, num_epochs)
       THEN /\ \E order \in SamplerOrders(loader, len(size, data)) :
                  it' = NewIter(order)
            /\ pc' = "fetch"
            /\ trainer' = trainer
            /\ tlog' = [tlog EXCEPT !.traversals = @ + 1, !.cur = <<>>]
            /\ trav' = Started(loader, trav)
       ELSE /\ it' = it
            /\ pc' = "idle"
            /\ trainer' = "Done"
            /\ tlog' = tlog
            /\ trav' = trav
    /\ UNCHANGED dsVars
    /\ UNCHANGED <<item, loader, batch, epoch, num_epochs, ops, mode,
                   params, grads, preds, loss, evalres>>
    /\ UNCHANGED exceptTlogTrav

\* for data_inputs, data_labels in data_loader: next batch, or the epoch ends
TrainFetch ==
    /\ pc = "fetch"
    /\ LET chunk == NextChunk(it, loader)
           f == Fetched(data, label, chunk)
       IN  /\ it' = Advance(it, chunk)
           /\ data' = f.data
           /\ label' = f.label
           /\ IF chunk = <<>>
              THEN /\ epoch' = epoch + 1
                   /\ pc' = "epoch"
                   /\ tlog' = [tlog EXCEPT !.per = Append(@, Len(tlog.cur))]
                   /\ trav' = Ended(loader, trav)
                   /\ UNCHANGED <<batch, ops>>
              ELSE /\ batch' = Corrupt(f.batch, feed, tlog.fetched + 1)
                   /\ ops' = <<"batch">>
                   /\ pc' = TrainBody[1]
                   /\ epoch' = epoch
                   /\ tlog' = [tlog EXCEPT !.fetched = @ + 1,
                                           !.cur = Append(@, chunk)]
                   /\ trav' = Yielded(loader, trav, Corrupt(f.batch, feed, tlog.fetched + 1))
    /\ UNCHANGED dsFrame
    /\ UNCHANGED <<item, loader, trainer, num_epochs, mode, params, grads,
                   preds, loss, evalres>>
    /\ UNCHANGED exceptTlogTrav

\* preds = model(data_inputs); preds = preds.squeeze(dim=1)
TrainForward ==
    /\ pc = "forward"
    /\ IF ForwardFails(batch)
       THEN /\ trainer' = "Failed"
            /\ pc' = "idle"
            /\ tlog' = [tlog EXCEPT !.error = "RuntimeError"]
            /\ UNCHANGED <<preds, ops>>
       ELSE /\ preds' = Forward(params, batch.inputs)
            /\ ops' = Append(ops, "forward")
            /\ pc' = After("forward")
            /\ UNCHANGED <<trainer, tlog>>
    /\ UNCHANGED dsVars
    /\ UNCHANGED <<item, loader, it, batch, epoch, num_epochs,
                   mode, params, grads, loss, evalres>>
    /\ UNCHANGED exceptTlog

\* loss = loss_module(preds, data_labels.float())
TrainLoss ==
    /\ pc = "loss"
    /\ IF LossFails(preds, batch.labels)
       THEN /\ trainer' = "Failed"
            /\ pc' = "idle"
            /\ tlog' = [tlog EXCEPT !.error = "ValueError"]
            /\ UNCHANGED <<loss, ops, passes>>
       ELSE /\ loss' = BCEWithLogits(preds, batch.labels)
            /\ passes' = [passes EXCEPT !.graph = batch]
            /\ ops' = Append(ops, "loss")
            /\ pc' = After("loss")
            /\ UNCHANGED <<trainer, tlog>>
    /\ UNCHANGED dsVars
    /\ UNCHANGED <<item, loader, it, batch, epoch, num_epochs,
                   mode, params, grads, preds, evalres>>
    /\ UNCHANGED exceptTlogPasses

\* optimizer.zero_grad()
TrainZeroGrad ==
    /\ pc = "zero_grad"
    /\ grads' = ZeroGrads
    /\ passes' = [passes EXCEPT !.since = <<>>, !.before = Len(passes.since)]
    /\ ops' = Append(ops, "zero_grad")
    /\ pc' = After("zero_grad")
    /\ UNCHANGED dsVars
    /\ UNCHANGED <<item, loader, it, batch, trainer, epoch, num_epochs,
                   mode, params, preds, loss, evalres>>
    /\ UNCHANGED exceptPasses

\* loss.backward()
TrainBackward ==
    /\ pc = "backward"
    /\ passes.graph.kind = "batch"
    /\ \E g \in {BatchGrad(params, passes.graph, preds)} :
          /\ grads' = Accumulate(grads, g)
          /\ passes' = [passes EXCEPT !.since = Append(@, g), !.graph = NoBatch]
    /\ ops' = Append(ops, "backward")
    /\ pc' = After("backward")
    /\ UNCHANGED dsVars
    /\ UNCHANGED <<item, loader, it, batch, trainer, epoch, num_epochs,
                   mode, params, preds, loss, evalres>>
    /\ UNCHANGED exceptPasses

\* optimizer.step()
TrainStep ==
    /\ pc = "step"
    /\ \E q \in {SGDStep(params, grads)} :
          /\ params' = q
          /\ tlog' = [tlog EXCEPT !.steps = @ + 1, !.after = q]
    /\ ops' = Append(ops, "step")
    /\ pc' = After("step")
    /\ UNCHANGED dsVars
    /\ UNCHANGED <<item, loader, it, batch, trainer, epoch, num_epochs,
                   mode, grads, preds, loss, evalres>>
    /\ UNCHANGED exceptTlog

\* ------------------------------------------------- state_dict, save, load
ParamNames == {"linear1.weight", "linear1.bias", "linear2.weight", "linear2.bias"}

\* model.state_dict(): the named tensors, linear2.weight of shape [1, 4]
\* and linear2.bias of shape [1]
StateDict(p) ==
    [k \in ParamNames |->
        CASE k = "linear1.weight" -> p.l1w
          [] k = "linear1.bias" -> p.l1b
          [] k = "linear2.weight" -> <<p.l2w>>
          [] k = "linear2.bias" -> <<p.l2b>>]

\* new_model.load_state_dict(state_dict): every parameter of the model q is
\* overwritten by the tensor of its name
LoadStateDict(q, sd) ==
    [l1w |-> sd["linear1.weight"],
     l1b |-> sd["linear1.bias"],
     l2w |-> sd["linear2.weight"][1],
     l2b |-> sd["linear2.bias"][1]]

\* the keys of the OrderedDict in the order the modules were registered
ParamOrder == <<"linear1.weight", "linear1.bias", "linear2.weight", "linear2.bias">>

\* the shape of each tensor of the state dict
ShapeOf(k) ==
    CASE k = "linear1.weight" -> <<NumHidden, 2>>
      [] k = "linear1.bias" -> <<NumHidden>>
      [] k = "linear2.weight" -> <<1, NumHidden>>
      [] k = "linear2.bias" -> <<1>>

\* the number of elements of a tensor of shape sh
Numel(sh) == IF Len(sh) = 1 THEN sh[1] ELSE sh[1] * sh[2]

\* the elements of tensor t of shape sh as its storage holds them: one
\* row after the other
Storage(t, sh) ==
    IF Len(sh) = 1 THEN t
    ELSE [i \in 1 .. sh[1] * sh[2] |-> t[((i - 1) \div sh[2]) + 1][((i - 1) % sh[2]) + 1]]

\* the tensor of shape sh over the storage fl
Reshape(fl, sh) ==
    IF Len(sh) = 1 THEN fl
    ELSE [r \in 1 .. sh[1] |-> [c \in 1 .. sh[2] |-> fl[(r - 1) * sh[2] + c]]]

\* the four bytes of one number, lowest byte first; as in float32 the sign
\* is the top bit of the last byte and the other 31 bits hold the magnitude
ToBytes(v) ==
    <<Abs(v) % 256, (Abs(v) \div 256) % 256, (Abs(v) \div 65536) % 256,
      ((Abs(v) \div 16777216) % 128) + (IF v < 0 THEN 128 ELSE 0)>>

FromBytes_unsigned(b) == b[1] + 256 * b[2] + 65536 * b[3] + 16777216 * (b[4] % 128)

\* the number four bytes stand for
FromBytes(b) ==
    IF b[4] >= 128
    THEN -(b[1] + 256 * b[2] + 65536 * b[3] + 16777216 * (b[4] % 128))
    ELSE b[1] + 256 * b[2] + 65536 * b[3] + 16777216 * b[4]

\* torch.save(state_dict, f): the file holds, key after key, the name, the
\* shape and the bytes of the storage of each tensor
TorchSave(sd) ==
    [k \in 1 .. Len(ParamOrder) |->
        [name |-> ParamOrder[k],
         shape |-> ShapeOf(ParamOrder[k]),
         bytes |-> [i \in 1 .. Numel(ShapeOf(ParamOrder[k])) |->
                      ToBytes(Storage(sd[ParamOrder[k]], ShapeOf(ParamOrder[k]))[i])]]]

\* torch.load(f): the dict of the tensors rebuilt from the entries of the file
TorchLoad(entries) ==
    [n \in {entries[k].name : k \in 1 .. Len(entries)} |->
        Val({Reshape([i \in 1 .. Len(e.bytes) |-> FromBytes(e.bytes[i])], e.shape) :
               e \in {entries[k] : k \in {j \in 1 .. Len(entries) : entries[j].name = n}}})]

\* another draw of nn.Linear's random initial values
AltInitParams ==
    [l1w |-> <<<<2950, -6377>>, <<-4816, 1043>>, <<6690, 3528>>, <<-1207, -5105>>>>,
     l1b |-> <<-5532, 3061, 897, 6245>>,
     l2w |-> <<1733, -4096, 4420, -2871>>,
     l2b |-> -3389]

\* the initial values SimpleClassifier(...) may draw for new_model
FreshParams == {InitParams, AltInitParams}

\* state_dict = model.state_dict(): the dict refers to the model's tensors
TakeStateDict ==
    /\ pc = "idle"
    /\ ckpt' = [ckpt EXCEPT !.state_dict = [kind |-> "alias"]]
    /\ UNCHANGED dsVars
    /\ UNCHANGED loopVars
    /\ UNCHANGED <<item, tlog, passes, new_model, sig, feed, trav, files, cell>>

\* torch.save(state_dict, "our_model.tar"): the file holds the bytes; orig,
\* steps and live record the model at this moment (history)
SaveModel ==
    /\ pc = "idle"
    /\ ckpt.state_dict.kind # "none"
    /\ ckpt' = [ckpt EXCEPT !.file =
                  [kind |-> "file",
                   entries |-> TorchSave(IF ckpt.state_dict.kind = "alias"
                                         THEN StateDict(params)
                                         ELSE ckpt.state_dict.dict),
                   live |-> ckpt.state_dict.kind = "alias",
                   orig |-> params,
                   steps |-> tlog.steps]]
    /\ UNCHANGED dsVars
    /\ UNCHANGED loopVars
    /\ UNCHANGED <<item, tlog, passes, new_model, sig, feed, trav, files, cell>>

\* state_dict = torch.load("our_model.tar"); new_model = SimpleClassifier(...);
\* new_model.load_state_dict(state_dict)
LoadModel ==
    /\ pc = "idle"
    /\ ckpt.file.kind = "file"
    /\ \E sd \in {TorchLoad(ckpt.file.entries)} :
          /\ ckpt' = [ckpt EXCEPT !.state_dict = [kind |-> "copy", dict |-> sd]]
          /\ \E q \in FreshParams :
                new_model' = [kind |-> "model", init |-> q,
                              params |-> LoadStateDict(q, sd),
                              src |-> ckpt.file]
    /\ UNCHANGED dsVars
    /\ UNCHANGED loopVars
    /\ UNCHANGED <<item, tlog, passes, sig, feed, trav, files, cell>>

\* ------------------------------------- the statements of the body alone
\* The statements of the loop body run one at a time, in a cell or in the
\* body of a loop over the loader, in whatever order they are called:
\* train_model always calls zero_grad before backward, the text on the
\* optimizer describes a backward pass that finds gradients in place.

\* preds = model(data_inputs); preds = preds.squeeze(dim=1);
\* loss = loss_module(preds, data_labels.float()) on the batch at hand
ForwardLoss ==
    /\ pc \in {"idle", "cell_loop"}
    /\ batch.kind = "batch"
    /\ Len(passes.since) < MaxPasses
    /\ \E zs \in {Forward(params, batch.inputs)} :
          /\ preds' = zs
          /\ loss' = BCEWithLogits(zs, batch.labels)
    /\ passes' = [passes EXCEPT !.graph = batch]
    /\ UNCHANGED dsVars
    /\ UNCHANGED <<item, loader, it, batch, pc, trainer, epoch, num_epochs,
                   ops, mode, params, grads, evalres>>
    /\ UNCHANGED exceptPasses

\* loss.backward() on the loss computed last, whatever the gradients hold;
\* the pass frees the graph, a second one on the same loss raises
Backward ==
    /\ pc \in {"idle", "cell_loop"}
    /\ passes.graph.kind = "batch"
    /\ \E g \in {BatchGrad(params, passes.graph, preds)} :
          /\ grads' = Accumulate(grads, g)
          /\ passes' = [passes EXCEPT !.since = Append(@, g), !.graph = NoBatch]
    /\ UNCHANGED dsVars
    /\ UNCHANGED <<item, loader, it, batch, pc, trainer, epoch, num_epochs,
                   ops, mode, params, preds, loss, evalres>>
    /\ UNCHANGED exceptPasses

\* optimizer.zero_grad() on its own
ZeroGrad ==
    /\ pc \in {"idle", "cell_loop"}
    /\ grads' = ZeroGrads
    /\ passes' = [passes EXCEPT !.since = <<>>, !.before = Len(passes.since)]
    /\ UNCHANGED dsVars
    /\ UNCHANGED <<item, loader, it, batch, pc, trainer, epoch, num_epochs,
                   ops, mode, params, preds, loss, evalres>>
    /\ UNCHANGED exceptPasses

\* ------------------------------------------------------------- eval_model
\* lines 682-687 for one row: the probability, the predicted label and
\* whether it equals the true label
PredictOne ==
    /\ sig.kind = "logit"
    /\ sig' = [kind |-> "pred", logit |-> sig.logit, tiny |-> sig.tiny, lab |-> sig.lab,
               prob |-> Sigmoid(sig.logit, sig.tiny),
               pred_label |-> Binarize(sig.logit, sig.tiny),
               right |-> (Binarize(sig.logit, sig.tiny) = sig.lab)]
    /\ UNCHANGED dsVars
    /\ UNCHANGED loopVars
    /\ UNCHANGED <<item, tlog, passes, ckpt, new_model, feed, trav, files, cell>>

Correct_wrong(zs, ys) ==
    SumTo([k \in 1 .. Len(zs) |-> IF PredLabel(zs[k]) # ys[k] THEN 1 ELSE 0], Len(zs))

\* the number of rows whose predicted label equals the true label
Correct(zs, ys) ==
    SumTo([k \in 1 .. Len(zs) |-> IF PredLabel(zs[k]) = ys[k] THEN 1 ELSE 0], Len(zs))

\* no value yet
Nothing == [kind |-> "nothing"]

\* Python's None
PyNone == [kind |-> "None"]

\* acc = true_preds / num_preds, kept as the fraction
Accuracy(tp, np) == [kind |-> "ratio", num |-> tp, den |-> np]

\* eval_model ends after the print: no return statement, the call gives None
Returned(acc) == PyNone

RowsSeen_nominal(b, ld) == ld.batch_size

\* num_preds += data_labels.shape[0]: the rows of this batch
RowsSeen(b, ld) == Len(b.labels)

NoGradForward_tracking(p, g, b) ==
    [preds |-> Forward(p, b.inputs),
     grads |-> Accumulate(g, BatchGrad(p, b, Forward(p, b.inputs)))]

\* with torch.no_grad(): preds = model(data_inputs): the logits, and the
\* stored gradients, which nothing touches
NoGradForward(p, g, b) == [preds |-> Forward(p, b.inputs), grads |-> g]

\* eval_model(model, data_loader): model.eval(); true_preds, num_preds = 0., 0.
EvalStart ==
    /\ pc = "idle"
    /\ loader.kind = "loader"
    /\ mode' = "eval"
    /\ evalres' = [kind |-> "running", true_preds |-> 0, num_preds |-> 0,
                   printed |-> Nothing, returned |-> Nothing,
                   run |-> tlog.again, steps |-> tlog.steps,
                   params |-> params, grads |-> grads]
    /\ \E order \in SamplerOrders(loader, len(size, data)) : it' = NewIter(order)
    /\ batch' = NoBatch
    /\ pc' = "eval_loop"
    /\ item' = NoItem
    /\ trav' = Started(loader, trav)
    /\ UNCHANGED dsVars
    /\ UNCHANGED <<loader, trainer, epoch, num_epochs, ops, params, grads,
                   preds, loss>>
    /\ UNCHANGED exceptTrav

\* one iteration of the loop under torch.no_grad(), or its end
EvalBatch ==
    /\ pc = "eval_loop"
    /\ LET chunk == NextChunk(it, loader)
           f == Fetched(data, label, chunk)
           b == f.batch
       IN  /\ it' = Advance(it, chunk)
           /\ data' = f.data
           /\ label' = f.label
           /\ IF chunk = <<>>
              THEN /\ pc' = "eval_acc"
                   /\ trav' = Ended(loader, trav)
                   /\ UNCHANGED <<batch, evalres, grads>>
              ELSE /\ pc' = "eval_loop"
                   /\ batch' = b
                   /\ trav' = Yielded(loader, trav, b)
                   /\ \E r \in {NoGradForward(params, grads, b)} :
                         /\ grads' = r.grads
                         /\ evalres' =
                              [evalres EXCEPT
                                 !.true_preds = @ + Correct(r.preds, b.labels),
                                 !.num_preds = @ + RowsSeen(b, loader)]
    /\ UNCHANGED dsFrame
    /\ UNCHANGED <<item, loader, trainer, epoch, num_epochs, ops, mode,
                   params, preds, loss>>
    /\ UNCHANGED exceptTrav

\* acc = true_preds / num_preds, then the print; 0. / 0. raises
DivFails_never(np) == FALSE

\* true_preds / num_preds over a loader that yielded nothing is the Python
\* division 0. / 0., which raises ZeroDivisionError
DivFails(np) == np = 0

EvalFinish ==
    /\ pc = "eval_acc"
    /\ evalres' = IF DivFails(evalres.num_preds)
                  THEN [evalres EXCEPT !.kind = "ZeroDivisionError"]
                  ELSE [evalres EXCEPT
                          !.kind = "acc",
                          !.printed = Accuracy(evalres.true_preds, evalres.num_preds),
                          !.returned = Returned(Accuracy(evalres.true_preds,
                                                         evalres.num_preds))]
    /\ pc' = "idle"
    /\ UNCHANGED dsVars
    /\ UNCHANGED <<item, loader, it, batch, trainer, epoch, num_epochs,
                   ops, mode, params, grads, preds, loss>>
    /\ UNCHANGED auxVars

\* --------------------------------------------------------- specifications
\* before any cell has run
InitLoop ==
    /\ loader = NoLoader /\ it = NoIter /\ batch = NoBatch
    /\ pc = "idle" /\ trainer = "Idle"
    /\ epoch = 0 /\ num_epochs = 0 /\ ops = <<>>
    /\ mode = "train"
    /\ grads = ZeroGrads
    /\ preds = <<>> /\ loss = 0
    /\ evalres = NoEval
    /\ trav = NoTrav
    /\ tlog = NoLog
    /\ passes = NoPasses
    /\ ckpt = NoCkpt
    /\ new_model = NoModel

InitData ==
    /\ dsState = "none"
    /\ size = 0 /\ std = 0
    /\ bits = <<>> /\ noise = <<>> /\ data = <<>> /\ label = <<>>
    /\ item = NoItem
    /\ feed = CleanFeed
    /\ sig = NoSig
    /\ files = NoFiles /\ cell = NoCell
    /\ params = InitParams
    /\ InitLoop

NextData == Construct \/ Regenerate \/ GetItem

\* the dataset class alone, every size, std and draw
SpecData == InitData /\ [][NextData]_vars

\* one fixed outcome of the random draws for each row
DrawBits(i) == <<i % 2, (i \div 2) % 2>>

DrawNoise(i) == <<(i % 3) - 1, ((i \div 2) % 3) - 1>>

\* after dataset = XORDataset(size=n, std=0.5), for each n
Init ==
    /\ \E n \in 0 .. MaxLoaderSize :
          /\ size = n
          /\ bits = [i \in 1 .. n |-> DrawBits(i)]
          /\ noise = [i \in 1 .. n |-> DrawNoise(i)]
          /\ label = LabelsOf(n, [i \in 1 .. n |-> DrawBits(i)])
          /\ data = DataOf(n, 1, [i \in 1 .. n |-> DrawBits(i)],
                           [i \in 1 .. n |-> DrawNoise(i)])
    /\ dsState = "built"
    /\ std = 1
    /\ item = NoItem
    /\ feed = CleanFeed
    /\ sig = NoSig
    /\ files = NoFiles /\ cell = NoCell
    /\ params \in FreshParams
    /\ InitLoop

Next ==
    \/ GetItem
    \/ MakeLoader
    \/ CellFirstBatch
    \/ CellLoopStart
    \/ CellLoopNext
    \/ TrainStart
    \/ TrainEpoch
    \/ TrainFetch
    \/ TrainForward
    \/ TrainLoss
    \/ TrainZeroGrad
    \/ TrainBackward
    \/ TrainStep
    \/ EvalStart
    \/ EvalBatch
    \/ EvalFinish

\* the notebook from the dataset on: loader, traversals, training, evaluation
Spec == Init /\ [][Next]_vars

\* the statements of train_model after its first
TrainNext ==
    \/ TrainEpoch
    \/ TrainFetch
    \/ TrainForward
    \/ TrainLoss
    \/ TrainZeroGrad
    \/ TrainBackward
    \/ TrainStep

\* after data_loader = DataLoader(dataset, batch_size=b, shuffle=True) over
\* a dataset with rows
InitGrad ==
    /\ \E n \in 1 .. MaxBatch :
          /\ size = n
          /\ bits = [i \in 1 .. n |-> DrawBits(i)]
          /\ noise = [i \in 1 .. n |-> DrawNoise(i)]
          /\ label = LabelsOf(n, [i \in 1 .. n |-> DrawBits(i)])
          /\ data = DataOf(n, 1, [i \in 1 .. n |-> DrawBits(i)],
                           [i \in 1 .. n |-> DrawNoise(i)])
    /\ dsState = "built"
    /\ std = 1
    /\ item = NoItem
    /\ feed = CleanFeed
    /\ sig = NoSig
    /\ files = NoFiles /\ cell = NoCell
    /\ params \in FreshParams
    /\ InitLoop

NextGrad ==
    \/ MakeLoader
    \/ CellFirstBatch
    \/ CellLoopStart
    \/ CellLoopNext
    \/ ForwardLoss
    \/ Backward
    \/ ZeroGrad

\* backward passes and gradient resets in any order, on batches of the loader
SpecGrad == InitGrad /\ [][NextGrad]_vars

\* after dataset = XORDataset(size=n) for the small sizes
InitCkpt ==
    /\ \E n \in 1 .. MaxBatch :
          /\ size = n
          /\ bits = [i \in 1 .. n |-> DrawBits(i)]
          /\ noise = [i \in 1 .. n |-> DrawNoise(i)]
          /\ label = LabelsOf(n, [i \in 1 .. n |-> DrawBits(i)])
          /\ data = DataOf(n, 1, [i \in 1 .. n |-> DrawBits(i)],
                           [i \in 1 .. n |-> DrawNoise(i)])
    /\ dsState = "built"
    /\ std = 1
    /\ item = NoItem
    /\ feed = CleanFeed
    /\ sig = NoSig
    /\ files = NoFiles /\ cell = NoCell
    /\ params \in FreshParams
    /\ InitLoop

NextCkpt ==
    \/ MakeLoader
    \/ TrainStart
    \/ TrainNext
    \/ TakeStateDict
    \/ SaveModel
    \/ LoadModel

\* training, then saving and loading the parameters, the cells in any order
SpecCkpt == InitCkpt /\ [][NextCkpt]_vars

\* after dataset = XORDataset(size=n) for the sizes above those a shuffled
\* loader is built over: the loaders are the unshuffled ones of every
\* batch_size and drop_last
InitRetrain ==
    /\ \E n \in (MaxShuffleSize + 1) .. MaxBatch :
          /\ size = n
          /\ bits = [i \in 1 .. n |-> DrawBits(i)]
          /\ noise = [i \in 1 .. n |-> DrawNoise(i)]
          /\ label = LabelsOf(n, [i \in 1 .. n |-> DrawBits(i)])
          /\ data = DataOf(n, 1, [i \in 1 .. n |-> DrawBits(i)],
                           [i \in 1 .. n |-> DrawNoise(i)])
    /\ dsState = "built"
    /\ std = 1
    /\ item = NoItem
    /\ feed = CleanFeed
    /\ sig = NoSig
    /\ files = NoFiles /\ cell = NoCell
    /\ params \in FreshParams
    /\ InitLoop

NextRetrain ==
    \/ MakeLoader
    \/ TrainStart
    \/ TrainAgain
    \/ TrainNext
    \/ EvalStart
    \/ EvalBatch
    \/ EvalFinish

\* train_model and eval_model called one after the other, any number of
\* evaluations before, between and after the calls of train_model
SpecRetrain == InitRetrain /\ [][NextRetrain]_vars

\* a dataset of the small sizes and a data_loader whose at-th batch of the
\* run is malformed
InitMal ==
    /\ \E n \in 1 .. MaxBatch :
          /\ size = n
          /\ bits = [i \in 1 .. n |-> DrawBits(i)]
          /\ noise = [i \in 1 .. n |-> DrawNoise(i)]
          /\ label = LabelsOf(n, [i \in 1 .. n |-> DrawBits(i)])
          /\ data = DataOf(n, 1, [i \in 1 .. n |-> DrawBits(i)],
                           [i \in 1 .. n |-> DrawNoise(i)])
    /\ dsState = "built"
    /\ std = 1
    /\ item = NoItem
    /\ \E f \in Faults, k \in 1 .. MaxFaultAt : feed = [fault |-> f, at |-> k]
    /\ sig = NoSig
    /\ files = NoFiles /\ cell = NoCell
    /\ params \in FreshParams
    /\ InitLoop

NextMal ==
    \/ MakeLoader
    \/ TrainStart
    \/ TrainNext

\* train_model over a loader that yields one malformed batch
SpecMal == InitMal /\ [][NextMal]_vars

\* one row reaching the evaluator with any logit and any label
\* the logits the evaluator is given: a few units around 0, and halves
Logits ==
    (-MaxLogit .. MaxLogit)
       \cup {h * (Scale \div Unit) : h \in -MaxLogit .. MaxLogit}

InitSig ==
    /\ dsState = "none"
    /\ size = 0 /\ std = 0
    /\ bits = <<>> /\ noise = <<>> /\ data = <<>> /\ label = <<>>
    /\ item = NoItem
    /\ feed = CleanFeed
    /\ \E h \in Logits, t \in TinyLogits, y \in Bit :
          /\ t # 0 => h = 0
          /\ sig = [kind |-> "logit", logit |-> h, tiny |-> t, lab |-> y]
    /\ files = NoFiles /\ cell = NoCell
    /\ params = InitParams
    /\ InitLoop

NextSig == PredictOne

\* the evaluator's prediction for one row, every logit
SpecSig == InitSig /\ [][NextSig]_vars

\* the same notebook; a call of train_model that can continue does so (the
\* function runs synchronously in one thread)
FairSpec == Spec /\ WF_vars(TrainNext)

\* ------------------------------------------------------------------
\* The download cell of the optimization and initialization notebook:
\* the pretrained files under CHECKPOINT_PATH.

\* the number of names in pretrained_files
NumFiles == 12

\* at most this many of the listed paths hold no file before the first run
MaxMissing == 2

\* the cell is run at most this many times
MaxRuns == 2

\* pretrained_files, by position in the list
pretrained_files == 1 .. NumFiles

\* what can be at os.path.join(CHECKPOINT_PATH, file_name): nothing, a
\* directory, or a regular file; from is the run that wrote the file (0:
\* it was there before the first run), whole whether it was written to
\* its end
Absent == [kind |-> "absent", from |-> 0, whole |-> FALSE]

Directory == [kind |-> "dir", from |-> 0, whole |-> FALSE]

Present == [kind |-> "file", from |-> 0, whole |-> TRUE]

isfile_never(f) == FALSE

\* os.path.isfile(file_path)
isfile(f) == f.kind = "file"

\* how the request for file_url can go: answered in full, answered with an
\* HTTP error status, no answer at all, the answer cut short
Responses == {"ok", "HTTPError", "URLError", "ContentTooShortError"}

\* urllib.request.urlretrieve(file_url, file_path) in run r with f at
\* file_path: the URL is opened first, so an HTTPError or URLError leaves
\* the path as it was; then the path is opened for writing, which fails
\* over a directory; then the answer is written, and a short answer
\* leaves what was written of it
urlretrieve(f, resp, r) ==
    IF resp \in {"HTTPError", "URLError"} THEN [file |-> f, exc |-> resp]
    ELSE IF f.kind = "dir" THEN [file |-> f, exc |-> "IsADirectoryError"]
    ELSE IF resp = "ok"
         THEN [file |-> [kind |-> "file", from |-> r, whole |-> TRUE],
               exc |-> "none"]
         ELSE [file |-> [kind |-> "file", from |-> r, whole |-> FALSE],
               exc |-> "ContentTooShortError"]

Caught_none(e) == FALSE

\* except HTTPError as e
Caught(e) == e = "HTTPError"

\* how the last run of the cell went: "ok" when it reached the end of the
\* list with nothing to report
Verdict(c) ==
    IF c.pc = "none" THEN "none"
    ELSE IF c.pc = "done" /\ c.reported = <<>> THEN "ok"
    ELSE "errors"

\* the cell is run: os.makedirs(CHECKPOINT_PATH, exist_ok=True) leaves
\* what is under the directory alone, and the loop starts at the first name
RunCell ==
    /\ cell.pc \in {"none", "done", "raised"}
    /\ cell.run < MaxRuns
    /\ cell' = [pc |-> "loop", run |-> cell.run + 1, i |-> 1,
                seen |-> <<>>, tried |-> <<>>, reported |-> <<>>,
                exc |-> "none", prev |-> Verdict(cell), start |-> files]
    /\ files' = files
    /\ UNCHANGED dsVars
    /\ UNCHANGED item
    /\ UNCHANGED loopVars
    /\ UNCHANGED exceptCell

\* one turn of the loop over a path that holds a file: nothing is done
SkipFile ==
    /\ cell.pc = "loop"
    /\ cell.i <= NumFiles
    /\ isfile(files[cell.i])
    /\ cell' = [cell EXCEPT !.seen = Append(@, cell.i), !.i = @ + 1]
    /\ files' = files
    /\ UNCHANGED dsVars
    /\ UNCHANGED item
    /\ UNCHANGED loopVars
    /\ UNCHANGED exceptCell

\* one turn of the loop over a path that holds no file: the file is
\* requested; an HTTPError is printed and the loop goes on, any other
\* exception leaves the cell
DownloadFile ==
    /\ cell.pc = "loop"
    /\ cell.i <= NumFiles
    /\ ~isfile(files[cell.i])
    /\ \E resp \in Responses :
          LET r == urlretrieve(files[cell.i], resp, cell.run)
              asked == Append(cell.tried, [file |-> cell.i, exc |-> r.exc])
          IN  /\ files' = [files EXCEPT ![cell.i] = r.file]
              /\ cell' =
                    IF r.exc = "none"
                    THEN [cell EXCEPT !.seen = Append(@, cell.i), !.i = @ + 1,
                                      !.tried = asked]
                    ELSE IF Caught(r.exc)
                    THEN [cell EXCEPT !.seen = Append(@, cell.i), !.i = @ + 1,
                                      !.tried = asked,
                                      !.reported = Append(@, cell.i)]
                    ELSE [cell EXCEPT !.seen = Append(@, cell.i),
                                      !.tried = asked,
                                      !.pc = "raised", !.exc = r.exc]
    /\ UNCHANGED dsVars
    /\ UNCHANGED item
    /\ UNCHANGED loopVars
    /\ UNCHANGED exceptCell

\* the list is exhausted: the cell ends
EndOfList ==
    /\ cell.pc = "loop"
    /\ cell.i = NumFiles + 1
    /\ cell' = [cell EXCEPT !.pc = "done"]
    /\ files' = files
    /\ UNCHANGED dsVars
    /\ UNCHANGED item
    /\ UNCHANGED loopVars
    /\ UNCHANGED exceptCell

\* CHECKPOINT_PATH before the first run: every listed path holds a file
\* but at most MaxMissing of them, which hold nothing or a directory
InitDl ==
    /\ dsState = "none"
    /\ size = 0 /\ std = 0
    /\ bits = <<>> /\ noise = <<>> /\ data = <<>> /\ label = <<>>
    /\ item = NoItem
    /\ feed = CleanFeed
    /\ sig = NoSig
    /\ \E missing \in SUBSET pretrained_files :
          /\ Cardinality(missing) <= MaxMissing
          /\ \E dirs \in SUBSET missing :
                files = [k \in pretrained_files |->
                           IF k \in dirs THEN Directory
                           ELSE IF k \in missing THEN Absent
                           ELSE Present]
    /\ cell = NoCell
    /\ params = InitParams
    /\ InitLoop

NextDl == RunCell \/ SkipFile \/ DownloadFile \/ EndOfList

\* the download cell, run up to MaxRuns times
SpecDl == InitDl /\ [][NextDl]_vars

\* ================================================================ claims
\* ---------------------------------------------------------------- C1
\* C1: in every constructed dataset each stored label is 0 or 1, and it is 1
\* exactly when the two clean bits drawn for that row differ (0 exactly when
\* they are equal), whatever the size, the std and the noise.
C1_LabelIsXorOfCleanBits ==
    dsState = "built" =>
        /\ Len(label) = Len(bits)
        /\ \A i \in 1 .. Len(label) :
              /\ label[i] \in {0, 1}
              /\ (label[i] = 1) <=> (bits[i][1] # bits[i][2])
              /\ (label[i] = 0) <=> (bits[i][1] = bits[i][2])

C1_Witness ==
    /\ dsState = "built" /\ size = 2 /\ std # 0
    /\ bits[1] = <<1, 1>> /\ label[1] = 0
    /\ bits[2] = <<0, 1>> /\ label[2] = 1
    /\ noise[1] # <<0, 0>>

\* ---------------------------------------------------------------- C2
\* C2 as stated: every construction with size <= 0 ends in an error and
\* produces no dataset.
C2_NonPositiveSizeFails ==
    (dsState # "none" /\ size <= 0) => dsState = "error"

\* C2 amended: a negative size fails at construction (no dataset), whereas
\* size = 0 constructs an empty dataset: no rows, no labels, length 0.
C2_NegativeFailsZeroIsEmpty ==
    dsState # "none" =>
        /\ size < 0 => (dsState = "error" /\ data = <<>> /\ label = <<>>)
        /\ size = 0 => /\ dsState = "built"
                       /\ data = <<>> /\ label = <<>>
                       /\ len(size, data) = 0

C2_Witness == dsState = "built" /\ size = 0 /\ data = <<>>

\* ---------------------------------------------------------------- C3
\* C3 as stated: every construction with std < 0 ends in an error.
C3_NegativeStdFails ==
    (dsState # "none" /\ std < 0) => dsState = "error"

\* C3 amended: a negative std is not rejected; with a size >= 0 the dataset
\* is built and each feature is its clean bit plus std times the noise draw.
C3_NegativeStdScalesNoise ==
    (dsState # "none" /\ std < 0 /\ size >= 0) =>
        /\ dsState = "built"
        /\ Len(data) = size
        /\ \A i \in 1 .. size :
              data[i] = <<Unit * bits[i][1] + std * noise[i][1],
                          Unit * bits[i][2] + std * noise[i][2]>>

C3_Witness ==
    /\ dsState = "built" /\ std < 0 /\ size = 2
    /\ noise[1] = <<1, -1>> /\ bits[1] = <<0, 1>>
    /\ data[1] = <<std, Unit - std>>

\* ---------------------------------------------------------------- C4
\* C4 as stated: the dataset has exactly size rows and dataset[idx] yields a
\* sample for idx in 0..size-1 and for no other idx.
C4_OnlyIndicesBelowSizeYield ==
    (dsState = "built" /\ item.kind = "got") =>
        /\ len(size, data) = size
        /\ Len(data) = size /\ Len(label) = size
        /\ (item.res.kind = "item") <=> (item.idx \in 0 .. (size - 1))

\* C4 amended: len(dataset) = size and both arrays have size rows; every
\* dataset[idx] yields, of the dataset as it stands when it is read, row idx
\* for idx in 0..size-1 and row idx + size for idx in -size..-1, and raises
\* IndexError for every other idx.
C4_ExactlySizeRows ==
    /\ [](dsState = "built" =>
            (len(size, data) = size /\ Len(data) = size /\ Len(label) = size))
    /\ [][(item' # item /\ item'.kind = "got") =>
            /\ item'.idx \in 0 .. (size - 1) =>
                  item'.res = [kind |-> "item", point |-> data[item'.idx + 1],
                               lab |-> label[item'.idx + 1]]
            /\ item'.idx \in (-size) .. (-1) =>
                  item'.res = [kind |-> "item", point |-> data[item'.idx + size + 1],
                               lab |-> label[item'.idx + size + 1]]
            /\ item'.idx \notin (-size) .. (size - 1) => item'.res = IndexError]_vars

C4_Witness ==
    /\ dsState = "built" /\ size = 2 /\ item.kind = "got"
    /\ item.idx = 1 /\ item.res.kind = "item" /\ item.res.point = data[2]

\* -------------------------------------------------- helpers of the claims
RECURSIVE Flatten(_)
Flatten(chunks) ==
    IF chunks = <<>> THEN <<>> ELSE Head(chunks) \o Flatten(Tail(chunks))

Sizes(chunks) == [k \in 1 .. Len(chunks) |-> Len(chunks[k])]

CeilDiv(n, b) == (n + b - 1) \div b

IsPrefix(s, t) == Len(s) <= Len(t) /\ s = SubSeq(t, 1, Len(s))

Traversing == loader.kind = "loader" /\ it.kind = "iter"

\* the number of batches one traversal of loader ld over n rows yields
BatchesPer(n, ld) ==
    IF ld.drop_last THEN n \div ld.batch_size ELSE CeilDiv(n, ld.batch_size)

\* the entries of a parameter (or gradient) record, one after the other
Comp(p) ==
    [i \in 1 .. 4 * NumHidden + 1 |->
        IF i <= NumHidden THEN p.l1w[i][1]
        ELSE IF i <= 2 * NumHidden THEN p.l1w[i - NumHidden][2]
        ELSE IF i <= 3 * NumHidden THEN p.l1b[i - 2 * NumHidden]
        ELSE IF i <= 4 * NumHidden THEN p.l2w[i - 3 * NumHidden]
        ELSE p.l2b]

InBody == pc \in {"forward", "loss", "zero_grad", "backward", "step"}

\* ---------------------------------------------------------------- C5
\* C5: with shuffle off and drop_last off every traversal yields the chunks
\* [0..b-1], [b..2b-1], ... in this order; when it ends it has yielded
\* ceil(n/b) batches whose indices, in order, are 0, 1, ..., n-1; for n = 10
\* and b = 4 the batch sizes are 4, 4, 2.
C5_SequentialChunks ==
    (Traversing /\ ~loader.shuffle /\ ~loader.drop_last) =>
        LET n == size
            b == loader.batch_size
            last(k) == IF k * b < n THEN k * b ELSE n
        IN  /\ \A k \in 1 .. Len(it.out) :
                  it.out[k] = [j \in 1 .. (last(k) - (k - 1) * b) |-> (k - 1) * b + j - 1]
            /\ it.done =>
                  /\ Len(it.out) = CeilDiv(n, b)
                  /\ Flatten(it.out) = [i \in 1 .. n |-> i - 1]
                  /\ (n = 10 /\ b = 4) => Sizes(it.out) = <<4, 4, 2>>

C5_Witness ==
    /\ Traversing /\ ~loader.shuffle /\ ~loader.drop_last
    /\ size = 10 /\ loader.batch_size = 4 /\ it.done
    /\ it.out = <<<<0, 1, 2, 3>>, <<4, 5, 6, 7>>, <<8, 9>>>>

\* ---------------------------------------------------------------- C6
\* C6: with drop_last on every batch has exactly b indices, a finished
\* traversal has yielded floor(n/b) batches, and the last n mod b indices of
\* the traversal order are in no batch (sizes 4, 4 for n = 10, b = 4); with
\* drop_last off and n not a multiple of b the final batch has n mod b rows.
C6_DropLast ==
    Traversing =>
        LET n == size
            b == loader.batch_size
            full == b * (n \div b)
        IN  /\ loader.drop_last =>
                  /\ \A k \in 1 .. Len(it.out) : Len(it.out[k]) = b
                  /\ it.done =>
                        /\ Len(it.out) = n \div b
                        /\ Flatten(it.out) = SubSeq(it.order, 1, full)
                        /\ \A i \in (full + 1) .. n :
                              \A k \in 1 .. Len(it.out) :
                                 \A j \in 1 .. Len(it.out[k]) :
                                    it.out[k][j] # it.order[i]
                        /\ (n = 10 /\ b = 4) => Sizes(it.out) = <<4, 4>>
            /\ (~loader.drop_last /\ it.done /\ n % b # 0) =>
                  /\ Len(it.out) = (n \div b) + 1
                  /\ Len(it.out[Len(it.out)]) = n % b
                  /\ it.out[Len(it.out)] = SubSeq(it.order, full + 1, n)

C6_Witness ==
    /\ Traversing /\ loader.drop_last
    /\ size = 10 /\ loader.batch_size = 4 /\ it.done
    /\ it.out = <<<<0, 1, 2, 3>>, <<4, 5, 6, 7>>>>

\* ---------------------------------------------------------------- C7
\* C7: with shuffle on and drop_last off, no traversal (of a cell, of an
\* epoch of train_model, of eval_model) yields an index twice or an index
\* outside 0..size-1, it yields at most size batches, and when it ends every
\* index 0..size-1 is in exactly one of its batches.
C7_ShuffledTraversalIsPermutation ==
    (Traversing /\ loader.shuffle /\ ~loader.drop_last) =>
        LET flat == Flatten(it.out)
        IN  /\ \A i \in 1 .. Len(flat) : flat[i] \in 0 .. (size - 1)
            /\ \A i, j \in 1 .. Len(flat) : flat[i] = flat[j] => i = j
            /\ Len(it.out) <= size
            /\ it.done =>
                  /\ Len(flat) = size
                  /\ \A x \in 0 .. (size - 1) : \E i \in 1 .. Len(flat) : flat[i] = x

C7_Witness ==
    /\ Traversing /\ loader.shuffle /\ ~loader.drop_last
    /\ trainer = "Running" /\ epoch = 1 /\ num_epochs = 2
    /\ size = 2 /\ loader.batch_size = 1
    /\ it.done /\ it.out = <<<<1>>, <<0>>>>

\* ---------------------------------------------------------------- C8
\* C8: a yielded batch has as many labels as feature rows, between 1 and
\* batch_size of them; row i of either array is that of the same dataset
\* sample; and within a traversal only the last batch is shorter than
\* batch_size.
C8_BatchAligned ==
    /\ (loader.kind = "loader" /\ batch.kind = "batch") =>
          /\ Len(batch.inputs) = Len(batch.labels)
          /\ Len(batch.inputs) >= 1
          /\ Len(batch.inputs) <= loader.batch_size
          /\ Len(batch.idx) = Len(batch.inputs)
          /\ \A i \in 1 .. Len(batch.inputs) :
                /\ batch.idx[i] \in 0 .. (size - 1)
                /\ batch.inputs[i] = data[batch.idx[i] + 1]
                /\ batch.labels[i] = label[batch.idx[i] + 1]
    /\ Traversing =>
          /\ \A k \in 1 .. Len(it.out) :
                Len(it.out[k]) < loader.batch_size =>
                    (k = Len(it.out) /\ it.pos = Len(it.order))
          /\ (it.out # <<>> /\ batch.kind = "batch") =>
                batch.idx = it.out[Len(it.out)]

C8_Witness ==
    /\ Traversing /\ batch.kind = "batch"
    /\ size = 10 /\ loader.batch_size = 4
    /\ batch.idx = <<8, 9>>
    /\ batch.inputs = <<data[9], data[10]>>
    /\ batch.labels = <<label[9], label[10]>>
    /\ data[9] # data[10]

\* ---------------------------------------------------------------- C9
\* C9: whatever has run since construction (indexing, traversals, training,
\* evaluation), every stored feature pair and label is the one computed at
\* construction from the draws, and the size and std are the ones given.
C9_DatasetNeverChanges ==
    dsState = "built" =>
        /\ Len(data) = size /\ Len(label) = size
        /\ \A i \in 1 .. size :
              /\ data[i] = <<Unit * bits[i][1] + std * noise[i][1],
                             Unit * bits[i][2] + std * noise[i][2]>>
              /\ label[i] = (IF bits[i][1] # bits[i][2] THEN 1 ELSE 0)

C9_Witness ==
    /\ dsState = "built" /\ size = 3
    /\ trainer = "Done" /\ num_epochs = 2
    /\ evalres.kind = "acc"
    /\ it.kind = "iter" /\ it.done

\* ---------------------------------------------------------------- C10
\* C10: in every training step the operations done so far are an initial
\* part of: batch, forward, loss, zero_grad, backward, step (each once, in
\* this order); when the backward pass is about to run the loss has been
\* computed and every gradient is zero, and the optimizer step comes after
\* the backward pass of its batch.
C10_StepOrder ==
    trainer = "Running" =>
        /\ IsPrefix(ops, <<"batch", "forward", "loss", "zero_grad", "backward", "step">>)
        /\ pc = "forward" => ops = <<"batch">>
        /\ pc = "loss" => ops = <<"batch", "forward">>
        /\ pc = "zero_grad" => ops = <<"batch", "forward", "loss">>
        /\ pc = "backward" =>
              /\ ops = <<"batch", "forward", "loss", "zero_grad">>
              /\ grads = ZeroGrads
        /\ pc = "step" => ops = <<"batch", "forward", "loss", "zero_grad", "backward">>
        /\ (pc \in {"fetch", "epoch"} /\ ops # <<>>) =>
              ops = <<"batch", "forward", "loss", "zero_grad", "backward", "step">>

C10_Witness ==
    /\ trainer = "Running" /\ epoch = 1 /\ pc = "fetch"
    /\ ops = <<"batch", "forward", "loss", "zero_grad", "backward", "step">>
    /\ params # InitParams

\* ---------------------------------------------------------------- C11
\* C11: train_model handles the batches one after the other, in the order
\* the loader yields them, epoch by epoch from 0 to num_epochs - 1: while a
\* batch is handled every earlier batch has had its optimizer step, the
\* forward pass read the parameters that step left, the batches of the
\* running epoch are those the iterator has yielded so far, in order, and
\* every earlier epoch has had its complete traversal.
C11_SequentialBatches ==
    trainer = "Running" =>
        /\ InBody =>
              /\ tlog.steps = tlog.fetched - 1
              /\ tlog.cur # <<>>
              /\ tlog.cur[Len(tlog.cur)] = batch.idx
              /\ epoch \in 0 .. num_epochs - 1
        /\ (InBody /\ pc # "forward") => preds = Forward(tlog.after, batch.inputs)
        /\ (InBody /\ pc # "step") => params = tlog.after
        /\ pc \in {"fetch", "epoch"} =>
              /\ tlog.steps = tlog.fetched
              /\ params = tlog.after
        /\ pc # "epoch" =>
              /\ tlog.cur = it.out
              /\ tlog.fetched = SumTo(tlog.per, Len(tlog.per)) + Len(tlog.cur)
        /\ pc = "epoch" => tlog.fetched = SumTo(tlog.per, Len(tlog.per))
        /\ Len(tlog.per) = epoch
        /\ tlog.traversals = IF pc = "epoch" THEN epoch ELSE epoch + 1
        /\ \A e \in 1 .. epoch : tlog.per[e] = BatchesPer(size, loader)

C11_Witness ==
    /\ trainer = "Running" /\ epoch = 1 /\ pc = "loss"
    /\ tlog.per = <<3>> /\ Len(tlog.cur) = 2
    /\ tlog.steps = 4
    /\ tlog.after # tlog.start

\* ---------------------------------------------------------------- C12
\* C12: a call of train_model with num_epochs = E over a loader of B
\* batches per traversal always ends, and when it has ended it has made
\* exactly E traversals and E * B optimizer steps; the epoch counter never
\* passes E; with E = 0 no step is made and the parameters are those the
\* call started with.
C12_TerminatesAfterAllEpochs ==
    /\ [](trainer = "Done" =>
            /\ tlog.traversals = num_epochs
            /\ tlog.steps = num_epochs * BatchesPer(size, tlog.loader)
            /\ tlog.fetched = tlog.steps
            /\ Len(tlog.per) = num_epochs
            /\ epoch = num_epochs
            /\ num_epochs = 0 => (tlog.steps = 0 /\ params = tlog.start))
    /\ [](trainer = "Running" => epoch <= num_epochs)
    /\ ((trainer = "Running") ~> (trainer = "Done"))

C12_Witness ==
    /\ trainer = "Done" /\ num_epochs = 2
    /\ size = 10 /\ tlog.loader.batch_size = 4 /\ ~tlog.loader.drop_last
    /\ tlog.steps = 6
    /\ params # tlog.start

\* ---------------------------------------------------------------- C13
\* C13: every stored gradient is the sum, entry by entry, of the gradients
\* of the backward passes made since the last zero_grad: zero after a
\* reset, the pass's own gradient after one pass, the sum of both after two
\* passes with no reset between them.
C13_GradientsAccumulate ==
    /\ \A i \in 1 .. 4 * NumHidden + 1 :
          Comp(grads)[i] =
             SumTo([k \in 1 .. Len(passes.since) |-> Comp(passes.since[k])[i]],
                   Len(passes.since))
    /\ Len(passes.since) = 0 => grads = ZeroGrads
    /\ Len(passes.since) = 1 => grads = passes.since[1]

C13_Witness ==
    /\ passes.before = 2
    /\ Len(passes.since) = 2
    /\ passes.since[1] # ZeroGrads /\ passes.since[2] # ZeroGrads
    /\ passes.since[1] # passes.since[2]
    /\ grads # passes.since[2]

\* ---------------------------------------------------------------- C14
\* C14: an optimizer step replaces every parameter entry p by
\* p - lr * grad(p), computed from the parameters and gradients at hand
\* alone, and leaves the gradients as they are; a step with all gradients
\* zero leaves the parameters unchanged; nothing but an optimizer step
\* changes a parameter.
C14_StepIsPlainSGD ==
    [][/\ (pc = "step" /\ pc' # "step") =>
             /\ \A i \in 1 .. 4 * NumHidden + 1 :
                   Comp(params')[i] = Comp(params)[i] - RDiv(Lr * Comp(grads)[i], Scale)
             /\ grads' = grads
             /\ grads = ZeroGrads => params' = params
       /\ params' # params => (pc = "step" /\ pc' # "step")]_vars

C14_Witness ==
    /\ trainer = "Running" /\ pc = "fetch"
    /\ tlog.steps = 2
    /\ ops = <<"batch", "forward", "loss", "zero_grad", "backward", "step">>
    /\ grads # ZeroGrads
    /\ params # tlog.start

\* ---------------------------------------------------------------- C15
\* C15: no statement of eval_model changes a weight, a bias or a stored
\* gradient, and when eval_model has returned all of them have the values
\* they had when it was called, whether it is called before the first call
\* of train_model, between two calls or after the last.
C15_EvalChangesNothing ==
    /\ [][(pc \in {"eval_loop", "eval_acc"} \/ pc' \in {"eval_loop", "eval_acc"}) =>
            /\ params' = params
            /\ grads' = grads]_vars
    /\ []((mode = "eval" /\ evalres.kind # "none") =>
            /\ params = evalres.params
            /\ grads = evalres.grads)

\* an evaluation between two calls of train_model that both made steps
C15_Witness ==
    /\ trainer = "Done" /\ tlog.again = 1 /\ tlog.steps >= 2
    /\ params # tlog.start
    /\ evalres.kind = "acc" /\ evalres.run = 0 /\ evalres.steps >= 2
    /\ evalres.num_preds = size /\ size >= 3
    /\ evalres.params = tlog.start
    /\ evalres.grads # ZeroGrads

\* ---------------------------------------------------------------- C16
\* C16 as stated: when eval_model has ended the caller holds the accuracy,
\* correct over seen, a value between 0 and 1.
C16_ReturnsAccuracy ==
    (pc = "idle" /\ evalres.kind \in {"acc", "ZeroDivisionError"}) =>
        /\ evalres.returned.kind = "ratio"
        /\ evalres.returned.num = evalres.true_preds
        /\ evalres.returned.den = evalres.num_preds
        /\ 0 <= evalres.returned.num /\ evalres.returned.num <= evalres.returned.den

\* the rows among idx that the parameters p classify as labelled
RightAmong(p, idx) ==
    Cardinality({k \in 1 .. Len(idx) :
                    (IF Logit(p, data[idx[k] + 1]) >= 0 THEN 1 ELSE 0) = label[idx[k] + 1]})

\* C16: during eval_model true_preds is the number of rows seen so far
\* whose predicted label equals the true label; when at least one row was
\* seen the function prints the accuracy true_preds / num_preds, a value
\* between 0 and 1, and gives None to its caller; when no row was seen the
\* division fails and nothing is printed.
C16_PrintsAccuracy ==
    /\ pc \in {"eval_loop", "eval_acc"} =>
          /\ evalres.true_preds = RightAmong(params, Flatten(it.out))
          /\ evalres.true_preds <= evalres.num_preds
    /\ evalres.kind = "acc" =>
          /\ evalres.printed = [kind |-> "ratio", num |-> evalres.true_preds,
                                                  den |-> evalres.num_preds]
          /\ 0 <= evalres.true_preds
          /\ evalres.true_preds <= evalres.num_preds
          /\ evalres.num_preds > 0
          /\ evalres.returned = PyNone
    /\ evalres.kind = "ZeroDivisionError" =>
          /\ evalres.num_preds = 0
          /\ evalres.printed = Nothing /\ evalres.returned = Nothing

C16_Witness ==
    /\ pc = "idle" /\ evalres.kind = "acc"
    /\ evalres.num_preds = 10
    /\ evalres.true_preds > 0 /\ evalres.true_preds < 10
    /\ evalres.returned = PyNone

\* ---------------------------------------------------------------- C17
\* C17: eval_model makes one traversal of the loader and counts every row
\* it yields once: num_preds is the number of rows yielded so far, no row
\* is yielded twice, the loop ends only when the iterator is exhausted, and
\* a last short batch counts with its own length, so that without
\* drop_last the total is the size of the dataset.
C17_CountsEveryRowOnce ==
    pc \in {"eval_loop", "eval_acc"} =>
        /\ evalres.num_preds = Len(Flatten(it.out))
        /\ \A j, k \in 1 .. Len(Flatten(it.out)) :
              j # k => Flatten(it.out)[j] # Flatten(it.out)[k]
        /\ pc = "eval_acc" =>
              /\ it.done
              /\ ~loader.drop_last => evalres.num_preds = size
              /\ loader.drop_last =>
                    evalres.num_preds = loader.batch_size * (size \div loader.batch_size)

C17_Witness ==
    /\ pc = "eval_acc"
    /\ size = 10 /\ loader.batch_size = 4 /\ ~loader.drop_last
    /\ Sizes(it.out) = <<4, 4, 2>>
    /\ evalres.num_preds = 10

\* ---------------------------------------------------------------- C18
\* C18 as stated: the predicted class is 1 exactly when the logit is at
\* least 0.
C18_ClassOneIffLogitNonNegative ==
    sig.kind = "pred" =>
        (sig.pred_label = 1 <=> (sig.logit > 0 \/ (sig.logit = 0 /\ sig.tiny >= 0)))

\* C18: the predicted class is 1 exactly when the float32 sigmoid of the
\* logit is at least 0.5, and 0 otherwise.  This is so for every logit that
\* is 0 or more (a logit of exactly 0 gives 0.5 and class 1) and also for
\* negative logits so close to 0 that their sigmoid rounds to 0.5; a logit
\* of -0.0001 or less gives class 0.
C18_ClassOneIffSigmoidAtLeastHalf ==
    sig.kind = "pred" =>
        /\ sig.pred_label \in {0, 1}
        /\ sig.pred_label = 1 <=>
              (2 * sig.prob.grid > ProbUnit
                 \/ (2 * sig.prob.grid = ProbUnit /\ sig.prob.off >= 0))
        /\ (sig.logit > 0 \/ (sig.logit = 0 /\ sig.tiny >= 0)) => sig.pred_label = 1
        /\ (sig.logit = 0 /\ sig.tiny = 0) =>
              (sig.prob = [grid |-> ProbUnit \div 2, off |-> 0] /\ sig.pred_label = 1)
        /\ (sig.logit = 0 /\ sig.tiny < 0) => sig.pred_label = 1
        /\ sig.logit < 0 => sig.pred_label = 0
        /\ sig.right <=> (sig.pred_label = sig.lab)

C18_Witness ==
    /\ sig.kind = "pred"
    /\ sig.logit = 0 /\ sig.tiny = -1
    /\ sig.prob = [grid |-> ProbUnit \div 2, off |-> 0]
    /\ sig.pred_label = 1

\* ---------------------------------------------------------------- C19
\* C19: after a state dict taken from the model has been written to the
\* file by torch.save, read back by torch.load and loaded into a freshly
\* constructed model, every entry of every parameter of the new model
\* equals that of the original at the save, whatever training came before
\* the save and whatever initial values the new model drew; both give the
\* same logits on the rows of the dataset, and if the original has made no
\* step since the save the two models are equal.
C19_SaveLoadRoundTrip ==
    (new_model.kind = "model" /\ new_model.src.live) =>
        /\ \A i \in 1 .. 4 * NumHidden + 1 :
              Comp(new_model.params)[i] = Comp(new_model.src.orig)[i]
        /\ Forward(new_model.params, data) = Forward(new_model.src.orig, data)
        /\ tlog.steps = new_model.src.steps => new_model.params = params

C19_Witness ==
    /\ new_model.kind = "model" /\ new_model.src.live
    /\ trainer = "Done" /\ new_model.src.steps >= 2
    /\ new_model.params = params
    /\ params # InitParams
    /\ new_model.init.l1w # params.l1w /\ new_model.init.l1b # params.l1b
    /\ new_model.init.l2w # params.l2w /\ new_model.init.l2b # params.l2b
    /\ \E j \in Hidden : params.l1w[j][1] < 0 /\ params.l1w[j][2] > 0
    /\ Len(new_model.src.entries) = 4
    /\ new_model.src.entries[1].bytes[1] = ToBytes(params.l1w[1][1])
    /\ new_model.src.entries[1].bytes[2] = ToBytes(params.l1w[1][2])
    /\ params.l1w[1][1] # params.l1w[1][2]

\* ---------------------------------------------------------------- C20
\* C20: when the loader yields a malformed batch (rows not 2 wide, or
\* labels not as many as rows) train_model stops at that batch with an
\* error raised to the caller: a wrong width fails in the forward pass, a
\* wrong number of labels in the loss; the batch is fetched once, no later
\* batch or epoch is fetched, zero_grad, backward and the optimizer step of
\* that batch do not run, the parameters stay those of the last step
\* before it, and the call never completes.
C20_MalformedBatchIsFatal ==
    /\ tlog.fetched <= feed.at
    /\ trainer = "Done" => tlog.fetched < feed.at
    /\ (trainer = "Running" /\ tlog.fetched = feed.at) =>
          /\ pc \in {"forward", "loss"}
          /\ feed.fault \in {"wide", "narrow"} => pc = "forward"
          /\ tlog.steps = feed.at - 1
    /\ trainer = "Failed" =>
          /\ pc = "idle"
          /\ tlog.fetched = feed.at
          /\ Len(tlog.per) = epoch
          /\ tlog.traversals = epoch + 1
          /\ tlog.steps = feed.at - 1
          /\ params = tlog.after
          /\ feed.fault \in {"wide", "narrow"} =>
                (tlog.error = "RuntimeError" /\ ops = <<"batch">>)
          /\ feed.fault \in {"labels_short", "labels_long"} =>
                (tlog.error = "ValueError" /\ ops = <<"batch", "forward">>)
    /\ trainer # "Failed" => tlog.error = "none"

C20_Witness ==
    /\ trainer = "Failed" /\ pc = "idle"
    /\ feed = [fault |-> "labels_long", at |-> 3]
    /\ tlog.steps = 2 /\ epoch = 1
    /\ params # tlog.start
    /\ tlog.error = "ValueError"

\* ---------------------------------------------------------------- C21
\* C21: in every constructed dataset the labels are those computed from the
\* clean bits before the noise was added, and the noise has changed the
\* features only, each by std times its draw; this is so also when the
\* noise has moved a feature to the other side of 0.5.
C21_NoiseLeavesLabels ==
    dsState = "built" =>
        /\ label = [i \in 1 .. size |-> IF bits[i][1] + bits[i][2] = 1 THEN 1 ELSE 0]
        /\ Len(data) = size
        /\ \A i \in 1 .. size : \A c \in 1 .. 2 :
              data[i][c] - Unit * bits[i][c] = std * noise[i][c]

C21_Witness ==
    /\ dsState = "built" /\ size = 2 /\ std = 2
    /\ bits[1] = <<0, 0>> /\ noise[1] = <<1, 0>>
    /\ 2 * data[1][1] > Unit /\ 2 * data[1][2] < Unit
    /\ label[1] = 0
    /\ bits[2] = <<1, 0>> /\ noise[2] = <<-1, 0>>
    /\ 2 * data[2][1] < Unit
    /\ label[2] = 1

\* ---------------------------------------------------------------- C22
\* C22: with shuffle off every traversal of the loader repeats the first
\* finished one: the batches it has yielded so far are the first batches of
\* that traversal, the same samples at the same positions, and when it
\* ends it has yielded exactly the same batches, whatever traversals and
\* training steps came in between.
C22_UnshuffledTraversalsRepeat ==
    (loader.kind = "loader" /\ ~loader.shuffle /\ trav.has) =>
        /\ IsPrefix(trav.cur, trav.first)
        /\ (it.kind = "iter" /\ it.done) => trav.cur = trav.first
        /\ Len(trav.first) = BatchesPer(size, loader)

C22_Witness ==
    /\ loader.kind = "loader" /\ ~loader.shuffle /\ trav.has
    /\ trainer = "Done" /\ tlog.steps = 6 /\ params # tlog.start
    /\ pc = "eval_acc" /\ it.done
    /\ Len(trav.first) = 3
    /\ trav.cur = trav.first

\* ---------------------------------------------------------------- C23
\* C23: the gradient every optimizer.step() of train_model applies is the
\* gradient of the current batch alone: exactly one loss.backward() has
\* run since the gradients were last zero, it is this batch's at the
\* parameters the step is about to change, and nothing of an earlier
\* batch or epoch is in any component of it.
C23_StepAppliesCurrentBatchOnly ==
    (trainer = "Running" /\ pc = "step") =>
        /\ Len(passes.since) = 1
        /\ passes.since[1] = BatchGrad(params, batch, Forward(params, batch.inputs))
        /\ \A i \in 1 .. 4 * NumHidden + 1 :
              Comp(grads)[i] = Comp(passes.since[1])[i]

C23_Witness ==
    /\ trainer = "Running" /\ pc = "step"
    /\ epoch = 1 /\ tlog.steps >= 3
    /\ passes.before = 1
    /\ grads # ZeroGrads
    /\ grads = BatchGrad(params, batch, Forward(params, batch.inputs))

\* ---------------------------------------------------------------- C24
\* C24: the download loop requests a file only when its path holds no
\* file: every request of a run is for a path that held no file when the
\* run started, a path that held a file still holds the same file, and a
\* run that follows a run which reached the end of the list with nothing
\* to report requests nothing.
C24_RequestsOnlyMissingFiles ==
    cell.pc # "none" =>
        /\ \A k \in 1 .. Len(cell.tried) :
              cell.start[cell.tried[k].file].kind # "file"
        /\ \A f \in pretrained_files :
              /\ cell.start[f].kind = "file" => files[f] = cell.start[f]
              /\ (files[f].kind = "file" /\ files[f].from # cell.run)
                    => files[f] = cell.start[f]
        /\ (cell.run >= 2 /\ cell.prev = "ok") => cell.tried = <<>>

C24_Witness ==
    /\ cell.pc = "done" /\ cell.run = 2 /\ cell.prev = "ok"
    /\ cell.tried = <<>>
    /\ \E f, g \in pretrained_files :
          /\ files[f] = [kind |-> "file", from |-> 1, whole |-> TRUE]
          /\ files[g] = Present

\* ---------------------------------------------------------------- C25
\* C25: an HTTPError raised by a download is caught and reported and the
\* loop goes on with the next name: no run is left by an HTTPError; the
\* names are considered in list order, none twice; every name before the
\* loop's position whose path held no file was requested, in list order;
\* and a run that reaches the end of the list has considered each of the
\* 12 names exactly once.
C25_HTTPErrorDoesNotStopLoop ==
    cell.pc # "none" =>
        /\ cell.exc # "HTTPError"
        /\ \A k \in 1 .. Len(cell.tried) :
              cell.tried[k].exc = "HTTPError" =>
                 /\ \E j \in 1 .. Len(cell.reported) :
                        cell.reported[j] = cell.tried[k].file
                 /\ cell.tried[k].file < cell.i
                 /\ files[cell.tried[k].file] = cell.start[cell.tried[k].file]
        /\ \A k \in 1 .. Len(cell.seen) : cell.seen[k] = k
        /\ Len(cell.seen) <= NumFiles
        /\ \A k \in 1 .. Len(cell.tried) - 1 :
              cell.tried[k].file < cell.tried[k + 1].file
        /\ \A f \in pretrained_files :
              (f < cell.i /\ cell.start[f].kind # "file") =>
                 \E k \in 1 .. Len(cell.tried) : cell.tried[k].file = f
        /\ cell.pc = "done" => (Len(cell.seen) = NumFiles /\ cell.i = NumFiles + 1)

C25_Witness ==
    /\ cell.pc = "done"
    /\ Len(cell.seen) = NumFiles
    /\ Len(cell.tried) = 2
    /\ cell.tried[1].exc = "HTTPError"
    /\ cell.reported = <<cell.tried[1].file>>
    /\ cell.tried[2].exc = "none"
    /\ files[cell.tried[1].file] = Absent
    /\ files[cell.tried[2].file].from = cell.run

\* ---------------------------------------------------------------- C26
\* C26: eval_model reports an accuracy only when the loader yields at
\* least one sample: over a loader that yields no batch (an empty dataset,
\* or drop_last with fewer rows than batch_size) the counts stay 0 and
\* the division raises an error with nothing reported; over any other
\* loader the count is positive and a value in [0,1] is reported.
C26_NoSampleNoAccuracy ==
    /\ (pc \in {"eval_loop", "eval_acc"} /\ BatchesPer(size, loader) = 0) =>
          evalres.num_preds = 0 /\ evalres.true_preds = 0
    /\ evalres.kind \in {"acc", "ZeroDivisionError"} =>
          /\ evalres.kind = "ZeroDivisionError" <=> BatchesPer(size, loader) = 0
          /\ evalres.kind = "ZeroDivisionError" <=> evalres.num_preds = 0
          /\ evalres.kind = "ZeroDivisionError" =>
                evalres.true_preds = 0 /\ evalres.printed = Nothing
          /\ evalres.kind = "acc" =>
                /\ evalres.printed.kind = "ratio"
                /\ evalres.printed.den = evalres.num_preds
                /\ 0 <= evalres.printed.num
                /\ evalres.printed.num <= evalres.printed.den

C26_Witness ==
    /\ evalres.kind = "ZeroDivisionError"
    /\ size = 3 /\ loader.kind = "loader"
    /\ loader.drop_last /\ loader.batch_size = 4
    /\ evalres.num_preds = 0
    /\ pc = "idle"

====
